---- MODULE Spec2Model ----
(***************************************************************************)
(* State-machine model of the simulation core of space-invaders-js:        *)
(*   - EntityManager (src/src/entities/EntityManager.ts): registry,        *)
(*     spatial hash, type index, update set, update pass and queries;      *)
(*   - GameLoop (src/src/ui/TouchButtons.ts): fixed-timestep loop.         *)
(*   - Time (src/src/ui/TouchButtons.ts): frame delta and accumulator;     *)
(*   - CollisionSystem (src/src/engine/Collision.ts): box tests.           *)
(* Each subsystem has its own specification over the shared variables.     *)
(***************************************************************************)
EXTENDS Integers, Sequences, FiniteSets, TLC

(***************************************************************************)
(* Bounds of the model                                                     *)
(***************************************************************************)
\* moves and manager calls the entities' update callbacks make in one pass
MaxPassOps == 3
\* entries (live or deleted) the update set's entry list may hold
MaxQueueLen == 3
\* frame callbacks that run
MaxFrames == 4
\* frame callbacks that run when callbacks throw or call back into the loop
MaxLifecycleFrames == 2
\* Time.update() calls
MaxTimeFrames == 3
\* insert() calls on a QuadTree since its construction or last clear()
MaxInserts == 11
\* waves a WaveManager starts
MaxWaves == 2
\* calls made on a WaveManager
MaxWaveCalls == 4

(***************************************************************************)
(* EntityManager: values                                                   *)
(***************************************************************************)
CELL_SIZE == 100

\* `undefined` (Map.get of a missing key) / no entity
None == "none"
\* a deleted entry of a Set's entry list (a live iterator steps over it)
EMPTY == "empty"

Ids == {"a", "b"}
\* Entity objects.  a1 and a2 are two objects that carry the same id.
Objects == {"a1", "a2", "b1"}
Types == {"player", "enemy", "projectile"}

\* entity.id and entity.type are fixed attributes of an entity object
idOf(o) == IF o \in {"a1", "a2"} THEN "a" ELSE "b"
typeOf(o) == IF o = "a1" THEN "player" ELSE "enemy"

\* world positions entities take (cells (0,0) and (2,0))
Origin == <<0, 0>>
Positions == {Origin, <<250, 10>>}
\* queries that are issued
QueryPoints == {<<0, 0>>, <<99, 99>>, <<-1, -1>>, <<250, 10>>}
Radii == {0, 50, 100, 160, 300}

VARIABLES
    entities,         \* Map<string, Entity>: id -> object, None when absent
    position,         \* entity.position of every object (Origin while the
                      \* object is held neither by the manager nor by update())
    spatialHash,      \* Map<string, Set<string>>: cell key -> set of ids
    entityTypeCache,  \* Map<EntityType, Set<string>>: type -> set of ids
    updateQueue,      \* Set<string> in insertion order (entry list)
    emPc,             \* "idle", or "callback" while update() is inside entity.update
    iter,             \* index of the for..of iterator into updateQueue
    cur,              \* the local `entity` of update()
    oldPosition,      \* the local `oldPosition` of update()
    passOps,          \* moves and calls made so far by the callbacks of the pass
    startOrder,       \* ids in the update set when the pass started, in order
    removedInPass,    \* ids removed while the pass runs
    passLog,          \* ids whose update was invoked in this pass, in order
    lastCall          \* the last API call and how it ended

emVars == <<entities, position, spatialHash, entityTypeCache, updateQueue, emPc,
            iter, cur, oldPosition, passOps, startOrder, removedInPass, passLog,
            lastCall>>

\* the four indices of the manager
mgrState == <<entities, spatialHash, entityTypeCache, updateQueue>>

VARIABLES
    fps,                 \* this.fps
    frameTime,           \* this.frameTime, in ticks
    maxUpdatesPerFrame,  \* this.maxUpdatesPerFrame
    running,             \* this.running
    lastTime,            \* this.lastTime, in ticks
    accumulated,         \* this.accumulated, in ticks
    rafId,               \* this.rafId
    rafPending,          \* frame callbacks requested and neither run nor cancelled
    clock,               \* the wall clock (performance.now(), frame timestamps), in ticks
    glPc,                \* "idle", or "update" / "render" while loop() is inside that callback
    deltaTime,           \* the local `deltaTime` of loop()
    updates,             \* the local `updates` of loop()
    updateArg,           \* the argument of the update callback being run
    renderArg,           \* the numerator of the interpolation given to render (over frameTime)
    panics,              \* onPanic invocations of the current frame callback
    frameAcc,            \* accumulated when the current frame callback began
    frameDelta,          \* wall-clock delta of the current frame callback
    frameLog,            \* per finished frame callback: its delta and its update count
    escaped              \* the exception that left the current or last frame callback

glVars == <<fps, frameTime, maxUpdatesPerFrame, running, lastTime, accumulated, rafId,
            rafPending, clock, glPc, deltaTime, updates, updateArg, renderArg, panics,
            frameAcc, frameDelta, frameLog, escaped>>

VARIABLES
    fixedTimestep,       \* Time.fixedTimestep, in ticks
    timeLastFrame,       \* Time.lastFrameTime, in ticks
    timeDelta,           \* Time.deltaTime, in ticks
    timeAccumulator,     \* Time.accumulator, in ticks
    timeNow,             \* performance.now() as Time reads it, in ticks
    timePc,              \* "draining" from update() until shouldFixedUpdate() returns false
    timeSteps,           \* true returns of shouldFixedUpdate() since the last update()
    timeReturn,          \* "true" or "false": what the last shouldFixedUpdate()
                         \* returned (None: not called since update())
    timeCalls            \* update() calls made

timeVars == <<fixedTimestep, timeLastFrame, timeDelta, timeAccumulator, timeNow,
              timePc, timeSteps, timeReturn, timeCalls>>

VARIABLES
    colCall              \* the last CollisionSystem call: its arguments and its outcome

colVars == <<colCall>>

VARIABLES
    qtTree,              \* the root QuadTree node: bounds, objects, nodes, level
    qtInserted,          \* the objects passed to insert() since construction or clear()
    qtSplits,            \* the bounds of the nodes whose split() created children, since then
    qtCall,              \* the last QuadTree call and whether it threw
    qtDropped            \* the last clear() discarded child nodes

qtVars == <<qtTree, qtInserted, qtSplits, qtCall, qtDropped>>

VARIABLES
    keyState,            \* KeyboardController.keyState: the keys set so far -> BOOLEAN
    currentDirection,    \* 'left', 'right' or 'none'
    isEnabled,           \* initialize() has run and dispose() has not
    listeners,           \* the Set of movement listeners, in insertion order
    windowHandlers,      \* the event types window holds a handler of the controller for
    kbStanding,          \* per listener, the last call that concerned it: "none",
                         \* "added", "removed" or "disposed"
    kbNotified,          \* the listener calls of the last key event, in order
    kbCall               \* the last call or event

kbVars == <<keyState, currentDirection, isEnabled, listeners, windowHandlers,
            kbStanding, kbNotified, kbCall>>

\* what the operations of one component leave alone
VARIABLES
    lastQuery            \* the last query of the EntityManager: what it returned, and
                         \* what the same query returned when it was repeated at once

queryVars == <<lastQuery>>

VARIABLES
    states,              \* GameStateManager.states: the registered state types (each
                         \* type is registered with a state object of its own)
    currentState,        \* this.currentState: the state object, named by its type, or null
    currentStateType,    \* this.currentStateType, or null
    gsmExited,           \* state objects whose exit() was called after their last enter()
    gsmCall              \* the last call of the manager and what it did

gsmVars == <<states, currentState, currentStateType, gsmExited, gsmCall>>

VARIABLES
    currentWave,         \* WaveManager.currentWave
    isWaveActive,        \* this.isWaveActive
    waveTimeout,         \* this.waveTimeout: the id of a timer, or 0 for null
    onWaveComplete,      \* whether this.onWaveComplete is set
    onEnemySpawn,        \* whether this.onEnemySpawn is set
    wmTimers,            \* the timers set with setTimeout and neither run nor cleared
    wmNow,               \* the time, in ms
    wmSeq,               \* setTimeout calls made so far; the id of the last timer
    wmStops,             \* stop() calls made so far
    wmCalls,             \* calls made so far
    wmEvent              \* the last call or timer callback and what it did

wmVars == <<currentWave, isWaveActive, waveTimeout, onWaveComplete, onEnemySpawn,
            wmTimers, wmNow, wmSeq, wmStops, wmCalls, wmEvent>>

outsideEM == <<queryVars, glVars, timeVars, colVars, qtVars, kbVars, gsmVars, wmVars>>
outsideGL == <<emVars, queryVars, timeVars, colVars, qtVars, kbVars, gsmVars, wmVars>>
outsideTime == <<emVars, queryVars, glVars, colVars, qtVars, kbVars, gsmVars, wmVars>>
outsideCol == <<emVars, queryVars, glVars, timeVars, qtVars, kbVars, gsmVars, wmVars>>
outsideQT == <<emVars, queryVars, glVars, timeVars, colVars, kbVars, gsmVars, wmVars>>
outsideKB == <<emVars, queryVars, glVars, timeVars, colVars, qtVars, gsmVars, wmVars>>
outsideQuery == <<glVars, timeVars, colVars, qtVars, kbVars, gsmVars, wmVars>>
outsideWM == <<emVars, queryVars, glVars, timeVars, colVars, qtVars, kbVars, gsmVars>>
outsideGSM == <<emVars, queryVars, glVars, timeVars, colVars, qtVars, kbVars, wmVars>>

vars == <<emVars, queryVars, glVars, timeVars, colVars, qtVars, kbVars, gsmVars, wmVars>>

(***************************************************************************)
(* EntityManager: helpers                                                  *)
(***************************************************************************)
Range(s) == {s[i] : i \in 1..Len(s)}

\* getCellKey: `${floor(x/CELL_SIZE)},${floor(y/CELL_SIZE)}`.  The key string
\* of two integers is kept as the pair it prints (the printing is injective).
getCellKey(p) == <<p[1] \div CELL_SIZE, p[2] \div CELL_SIZE>>

addToSpatialHash(h, id, p) ==
    LET cell == getCellKey(p)
        h1 == IF cell \in DOMAIN h THEN h ELSE h @@ (cell :> {})
    IN [h1 EXCEPT ![cell] = @ \cup {id}]

\* spatialHash.get(cell)?.delete(id)
hashDelete(h, cell, id) ==
    IF cell \in DOMAIN h THEN [h EXCEPT ![cell] = @ \ {id}] ELSE h

removeFromSpatialHash(h, id, p) == hashDelete(h, getCellKey(p), id)

updateEntityPosition(h, id, oldP, newP) ==
    LET oldCell == getCellKey(oldP)
        newCell == getCellKey(newP)
    IN IF oldCell # newCell
       THEN addToSpatialHash(hashDelete(h, oldCell, id), id, newP)
       ELSE h

updateEntityTypeCache(c, id, t) ==
    LET c1 == IF t \in DOMAIN c THEN c ELSE c @@ (t :> {})
    IN [c1 EXCEPT ![t] = @ \cup {id}]

\* variant: the id is left in its type set
removeFromEntityTypeCacheSkip(c, id, t) == c

removeFromEntityTypeCache(c, id, t) ==
    IF t \in DOMAIN c THEN [c EXCEPT ![t] = @ \ {id}] ELSE c

hasPositionChanged(p1, p2) == p1[1] # p2[1] \/ p1[2] # p2[2]

\* Set.prototype.add: appends unless present
SetAdd(q, id) == IF id \in Range(q) THEN q ELSE Append(q, id)

\* Set.prototype.delete: the entry is emptied, the list keeps its indices
SetDelete(q, id) == [i \in 1..Len(q) |-> IF q[i] = id THEN EMPTY ELSE q[i]]

\* the entry list without its deleted entries (no iterator is live)
Compact(q) == SelectSeq(q, LAMBDA x : x # EMPTY)

(***************************************************************************)
(* EntityManager: queries                                                  *)
(***************************************************************************)
\* Math.ceil(radius / CELL_SIZE) for an integer radius >= 0
cellRadius(radius) == (radius + CELL_SIZE - 1) \div CELL_SIZE

getCellsInRadius(p, radius) ==
    LET centerX == p[1] \div CELL_SIZE
        centerY == p[2] \div CELL_SIZE
        cr == cellRadius(radius)
    IN {<<centerX + x, centerY + y>> : x \in (-cr)..cr, y \in (-cr)..cr}

isWithinRadius(p1, p2, radius) ==
    LET dx == p1[1] - p2[1]
        dy == p1[2] - p2[2]
    IN (dx * dx + dy * dy) <= radius * radius

\* variant: no `if (!entity) continue`
resolvesAny(id) == TRUE

\* `if (!entity) continue`: an id that resolves to undefined is skipped
resolves(id) == entities[id] # None

\* queryRadius: the entity objects returned (a Set<Entity>, so each once);
\* threw: an id that passed the `!entity` test is undefined, so reading
\* entity.position raises a TypeError
queryRadius(p, radius) ==
    LET cells == getCellsInRadius(p, radius) \cap DOMAIN spatialHash
        cand == UNION {spatialHash[c] : c \in cells}
        live == {id \in cand : resolves(id)}
    IN [threw  |-> \E id \in live : entities[id] = None,
        result |-> {entities[id] : id \in
                      {i \in live : /\ entities[i] # None
                                    /\ isWithinRadius(p, position[entities[i]], radius)}}]

\* getEntitiesByType: ids of the type's set mapped through entities.get,
\* undefined filtered out; [] for a type that has no set
getEntitiesByType(t) ==
    IF t \notin DOMAIN entityTypeCache
    THEN [threw |-> FALSE, result |-> {}]
    ELSE LET live == {id \in entityTypeCache[t] : resolves(id)}
         IN [threw  |-> \E id \in live : entities[id] = None,
             result |-> {entities[id] : id \in {i \in live : entities[i] # None}}]

(***************************************************************************)
(* EntityManager: operations                                               *)
(***************************************************************************)
Registered == {id \in Ids : entities[id] # None}
Min(S) == CHOOSE x \in S : \A y \in S : x <= y

\* a call record: the operation, its id, whether the id was registered when
\* the call was made, and whether the call threw
Call(op, id, found, threw) == [op |-> op, id |-> id, found |-> found, threw |-> threw]

\* variant: no `this.entities.has(entity.id)` test
addEntityNoCheck(o) ==
    /\ entities' = [entities EXCEPT ![idOf(o)] = o]
    /\ spatialHash' = addToSpatialHash(spatialHash, idOf(o), position'[o])
    /\ entityTypeCache' = updateEntityTypeCache(entityTypeCache, idOf(o), typeOf(o))
    /\ updateQueue' = SetAdd(updateQueue, idOf(o))
    /\ lastCall' = Call("addEntity", idOf(o), entities[idOf(o)] # None, FALSE)

\* addEntity(entity): the entity is object o (its position is position'[o])
addEntity(o) ==
    LET id == idOf(o) IN
    IF entities[id] # None
    THEN /\ UNCHANGED mgrState
         /\ lastCall' = Call("addEntity", id, TRUE, TRUE)
    ELSE /\ entities' = [entities EXCEPT ![id] = o]
         /\ spatialHash' = addToSpatialHash(spatialHash, id, position'[o])
         /\ entityTypeCache' = updateEntityTypeCache(entityTypeCache, id, typeOf(o))
         /\ updateQueue' = SetAdd(updateQueue, id)
         /\ lastCall' = Call("addEntity", id, FALSE, FALSE)

\* variant: no `if (!entity) return`, so entity.position of undefined raises
removeEntityUnguarded(id, inPass) ==
    LET entity == entities[id] IN
    IF entity = None
    THEN /\ UNCHANGED mgrState
         /\ lastCall' = Call("removeEntity", id, FALSE, TRUE)
    ELSE /\ spatialHash' = removeFromSpatialHash(spatialHash, id, position[entity])
         /\ entityTypeCache' = removeFromEntityTypeCache(entityTypeCache, id, typeOf(entity))
         /\ entities' = [entities EXCEPT ![id] = None]
         /\ updateQueue' = IF inPass THEN SetDelete(updateQueue, id)
                           ELSE Compact(SetDelete(updateQueue, id))
         /\ lastCall' = Call("removeEntity", id, TRUE, FALSE)

\* removeEntity(entityId); inPass: update()'s iterator is live
removeEntity(id, inPass) ==
    LET entity == entities[id] IN
    IF entity = None
    THEN /\ UNCHANGED mgrState
         /\ lastCall' = Call("removeEntity", id, FALSE, FALSE)
    ELSE /\ spatialHash' = removeFromSpatialHash(spatialHash, id, position[entity])
         /\ entityTypeCache' = removeFromEntityTypeCache(entityTypeCache, id, typeOf(entity))
         /\ entities' = [entities EXCEPT ![id] = None]
         /\ updateQueue' = IF inPass THEN SetDelete(updateQueue, id)
                           ELSE Compact(SetDelete(updateQueue, id))
         /\ lastCall' = Call("removeEntity", id, TRUE, FALSE)

\* an object that leaves the manager and is not running its update is dropped
Drop(pos, o) == IF o = None THEN pos ELSE [pos EXCEPT ![o] = Origin]

\* history of a pass is forgotten at the next call between passes
ForgetPass ==
    /\ startOrder' = <<>>
    /\ removedInPass' = {}
    /\ passLog' = <<>>

\* the entity handed to addEntity: an object that is registered, or that is
\* running its update, keeps its position; any other object was built at p
Built(o, p) ==
    (entities[idOf(o)] = o \/ o = cur) => p = position[o]

\* for (const entityId of this.updateQueue): the next entry after index i
\* that is not deleted and whose id resolves (`if (!entity) continue`)
NextIndex(q, i, ents) ==
    LET S == {j \in (i + 1)..Len(q) : q[j] # EMPTY /\ ents[q[j]] # None}
    IN IF S = {} THEN 0 ELSE Min(S)

\* the loop head of update(): enter the next entity's update, or end the pass
Advance(i, log) ==
    LET j == NextIndex(updateQueue, i, entities) IN
    IF j # 0
    THEN /\ emPc' = "callback"
         /\ iter' = j
         /\ cur' = entities[updateQueue[j]]
         /\ oldPosition' = position[entities[updateQueue[j]]]
         /\ passOps' = IF i = 0 THEN 0 ELSE passOps
         /\ passLog' = Append(log, updateQueue[j])
         /\ UNCHANGED updateQueue
    ELSE /\ emPc' = "idle"
         /\ iter' = 0
         /\ cur' = None
         /\ oldPosition' = Origin
         /\ passOps' = 0
         /\ passLog' = log
         /\ updateQueue' = Compact(updateQueue)

(***************************************************************************)
(* EntityManager: actions                                                  *)
(***************************************************************************)
\* the caller registers object o, built at position p
AddEntity(o, p) ==
    /\ UNCHANGED outsideEM
    /\ emPc = "idle"
    /\ Built(o, p)
    /\ position' = IF entities[idOf(o)] = None THEN [position EXCEPT ![o] = p]
                   ELSE position
    /\ addEntity(o)
    /\ ForgetPass
    /\ UNCHANGED <<emPc, iter, cur, oldPosition, passOps>>

\* the caller removes id between update passes
RemoveEntity(id) ==
    /\ UNCHANGED outsideEM
    /\ emPc = "idle"
    /\ removeEntity(id, FALSE)
    /\ position' = Drop(position, entities[id])
    /\ ForgetPass
    /\ UNCHANGED <<emPc, iter, cur, oldPosition, passOps>>

\* update(deltaTime) is called: up to the first entity.update(deltaTime)
UpdateStart ==
    /\ UNCHANGED outsideEM
    /\ emPc = "idle"
    /\ startOrder' = Compact(updateQueue)
    /\ removedInPass' = {}
    /\ Advance(0, <<>>)
    /\ lastCall' = Call("update", None, FALSE, FALSE)
    /\ UNCHANGED <<entities, position, spatialHash, entityTypeCache>>

\* inside entity.update: the entity moves itself
CbMove(p) ==
    /\ UNCHANGED outsideEM
    /\ emPc = "callback"
    /\ passOps < MaxPassOps
    /\ p # position[cur]
    /\ position' = [position EXCEPT ![cur] = p]
    /\ passOps' = passOps + 1
    /\ lastCall' = Call("move", idOf(cur), entities[idOf(cur)] = cur, FALSE)
    /\ UNCHANGED <<mgrState, emPc, iter, cur, oldPosition, startOrder,
                   removedInPass, passLog>>

\* inside entity.update: the entity calls manager.addEntity (a spawn)
CbAdd(o, p) ==
    /\ UNCHANGED outsideEM
    /\ emPc = "callback"
    /\ passOps < MaxPassOps
    /\ Len(updateQueue) < MaxQueueLen
    /\ Built(o, p)
    /\ position' = IF entities[idOf(o)] = None THEN [position EXCEPT ![o] = p]
                   ELSE position
    /\ addEntity(o)
    /\ passOps' = passOps + 1
    /\ UNCHANGED <<emPc, iter, cur, oldPosition, startOrder, removedInPass, passLog>>

\* inside entity.update: the entity calls manager.removeEntity
CbRemove(id) ==
    /\ UNCHANGED outsideEM
    /\ emPc = "callback"
    /\ passOps < MaxPassOps
    /\ removeEntity(id, TRUE)
    /\ passOps' = passOps + 1
    /\ removedInPass' = IF entities[id] # None THEN removedInPass \cup {id}
                        ELSE removedInPass
    /\ position' = IF entities[id] # cur THEN Drop(position, entities[id])
                   ELSE position
    /\ UNCHANGED <<emPc, iter, cur, oldPosition, startOrder, passLog>>

\* entity.update returns: the rehash of update(), then the loop head
CbReturn ==
    /\ UNCHANGED outsideEM
    /\ emPc = "callback"
    /\ spatialHash' = IF hasPositionChanged(oldPosition, position[cur])
                      THEN updateEntityPosition(spatialHash, idOf(cur), oldPosition,
                                                position[cur])
                      ELSE spatialHash
    /\ Advance(iter, passLog)
    /\ position' = IF entities[idOf(cur)] # cur THEN Drop(position, cur)
                   ELSE position
    \* id: the entity that update() moved between buckets, if it did
    /\ lastCall' = Call("update",
                        IF getCellKey(oldPosition) # getCellKey(position[cur])
                        THEN idOf(cur) ELSE None,
                        entities[idOf(cur)] = cur, FALSE)
    /\ UNCHANGED <<entities, entityTypeCache, startOrder, removedInPass>>

\* variant: a query makes an empty bucket for every cell it looks up
hashAfterLookupsCreates(hash, cells) ==
    [c \in DOMAIN hash \cup cells |-> IF c \in DOMAIN hash THEN hash[c] ELSE {}]

\* the spatial hash after queryRadius looked up the cells:
\* `this.spatialHash.get(cell)` followed by `continue` when there is no bucket
hashAfterLookups(hash, cells) == hash

\* queryRadius(position, radius), between passes or from inside an entity's
\* update, and the same call again
QueryRadius(p, radius) ==
    /\ UNCHANGED outsideQuery
    /\ spatialHash' = hashAfterLookups(spatialHash, getCellsInRadius(p, radius))
    /\ UNCHANGED <<entities, position, entityTypeCache, updateQueue, emPc, iter, cur,
                   oldPosition, passOps, startOrder, removedInPass, passLog, lastCall>>
    /\ lastQuery' = [op |-> "queryRadius", arg |-> <<p, radius>>,
                     first |-> queryRadius(p, radius),
                     again |-> queryRadius(p, radius)']

\* getEntitiesByType(type), and the same call again
GetEntitiesByType(t) ==
    /\ UNCHANGED outsideQuery
    /\ UNCHANGED emVars
    /\ lastQuery' = [op |-> "getEntitiesByType", arg |-> t,
                     first |-> getEntitiesByType(t),
                     again |-> getEntitiesByType(t)']

\* entity.update throws: update() has no try block, so the rehash and the
\* rest of the pass are not run and the exception leaves update()
CbThrow ==
    /\ UNCHANGED outsideEM
    /\ emPc = "callback"
    /\ emPc' = "idle"
    /\ iter' = 0
    /\ cur' = None
    /\ oldPosition' = Origin
    /\ passOps' = 0
    /\ updateQueue' = Compact(updateQueue)
    /\ position' = IF entities[idOf(cur)] # cur THEN Drop(position, cur)
                   ELSE position
    /\ lastCall' = Call("update", idOf(cur), entities[idOf(cur)] = cur, TRUE)
    /\ UNCHANGED <<entities, spatialHash, entityTypeCache, startOrder, removedInPass,
                   passLog>>

(***************************************************************************)
(* GameLoop.  Times are whole ticks of 1/TicksPerMs ms, so that 1000/60 ms   *)
(* and 16.67 ms are exact; the arithmetic of loop() is carried out exactly.  *)
(* The statistics counters never steer the loop and are left out.           *)
(***************************************************************************)
TicksPerMs == 300
DEFAULT_FPS == 60
MAX_UPDATES_PER_FRAME == 10
\* the ceiling of `if (deltaTime > 1000)`, in ms
MAX_DELTA_MS == 1000

Ms(x) == x * TicksPerMs

\* options.fps and options.maxUpdatesPerFrame (0: not given)
FpsOptions == {0, 30}
MaxUpdatesOptions == {0, 1, 3}
\* wall-clock time between frame callbacks: 0, 16.67, 50, 200, 1000, 1001 ms
Deltas == {0, 5001, 15000, 60000, 300000, 300300}
\* request ids handed out by requestAnimationFrame
RafIds == 1..(MaxFrames + 3)
\* errors a callback may throw
Errors == {"e1", "e2"}

MinOf(a, b) == IF a <= b THEN a ELSE b

\* options.fps || DEFAULT_FPS
fpsOf(opt) == IF opt # 0 THEN opt ELSE DEFAULT_FPS
\* 1000 / this.fps
frameTimeOf(f) == Ms(1000) \div f
\* options.maxUpdatesPerFrame || MAX_UPDATES_PER_FRAME
maxUpdatesOf(opt) == IF opt # 0 THEN opt ELSE MAX_UPDATES_PER_FRAME

\* variant: `if (this.running)` is not tested
loopRunsAlways(r) == TRUE

\* `if (!this.running) return` at the head of loop()
loopRuns(r) == r

\* variant: the delta is never clamped
clampDeltaOff(dt, ft) == dt

\* `if (deltaTime > 1000) deltaTime = this.frameTime`
clampDelta(dt, ft) == IF dt > Ms(MAX_DELTA_MS) THEN ft ELSE dt

\* `while (this.accumulated >= this.frameTime)`
drainMore(acc, ft) == acc >= ft

\* variant: `>` in place of `>=`
updateSpiralLate(n, max) == n > max

\* `if (updates >= this.maxUpdatesPerFrame)`
updateSpiral(n, max) == n >= max

\* variant: handlePanic leaves the accumulator as it is
panicAccumulatedKept(acc) == acc

\* handlePanic: `this.accumulated = 0`
panicAccumulated(acc) == 0

\* variant: onPanic is not invoked
onPanicSkipped(n) == n

\* handlePanic: `if (this.callbacks.onPanic) this.callbacks.onPanic()`, with
\* a panic callback provided; n counts its invocations
onPanicCalls(n) == n + 1

\* `this.callbacks.update(this.frameTime)`
updateArgument(ft, dt) == ft

\* requestAnimationFrame: an id that names no other request
NewRaf == CHOOSE i \in RafIds : i \notin rafPending \cup {rafId}

\* constructor(callbacks, options)
InitGL(fpsOpt, maxOpt) ==
    /\ fps = fpsOf(fpsOpt)
    /\ frameTime = frameTimeOf(fpsOf(fpsOpt))
    /\ maxUpdatesPerFrame = maxUpdatesOf(maxOpt)
    /\ running = FALSE
    /\ lastTime = 0
    /\ accumulated = 0
    /\ rafId = 0
    /\ rafPending = {}
    /\ clock = 0
    /\ glPc = "idle"
    /\ deltaTime = 0
    /\ updates = 0
    /\ updateArg = 0
    /\ renderArg = 0
    /\ panics = 0
    /\ frameAcc = 0
    /\ frameDelta = 0
    /\ frameLog = <<>>
    /\ escaped = None

glLocals == <<deltaTime, updates, updateArg, renderArg, panics, frameAcc, frameDelta,
              escaped>>
glConfig == <<fps, frameTime, maxUpdatesPerFrame>>

\* start()
Start ==
    /\ UNCHANGED outsideGL
    /\ glPc = "idle"
    /\ IF running
       THEN UNCHANGED <<running, lastTime, accumulated, rafId, rafPending>>
       ELSE /\ running' = TRUE
            /\ lastTime' = clock
            /\ accumulated' = 0
            /\ rafId' = NewRaf
            /\ rafPending' = rafPending \cup {NewRaf}
    /\ UNCHANGED <<glConfig, glLocals, clock, glPc, frameLog>>

\* stop()
Stop ==
    /\ UNCHANGED outsideGL
    /\ glPc = "idle"
    /\ IF ~running
       THEN UNCHANGED <<running, rafPending>>
       ELSE /\ running' = FALSE
            /\ rafPending' = rafPending \ {rafId}
    /\ UNCHANGED <<glConfig, glLocals, lastTime, accumulated, rafId, clock, glPc,
                   frameLog>>

\* the head of the drain loop of loop(): enter the update callback, or leave
\* the loop and enter the render callback with accumulated / frameTime
Drain(acc) ==
    IF drainMore(acc, frameTime)
    THEN /\ glPc' = "update"
         /\ updateArg' = updateArgument(frameTime, deltaTime')
         /\ UNCHANGED renderArg
    ELSE /\ glPc' = "render"
         /\ renderArg' = acc
         /\ UNCHANGED updateArg

\* a requested frame callback runs d ticks after the last event: loop(currentTime)
\* up to its first callback
FrameBegin(d) ==
    /\ UNCHANGED outsideGL
    /\ glPc = "idle"
    /\ Len(frameLog) < MaxFrames
    /\ \E id \in rafPending : rafPending' = rafPending \ {id}
    /\ clock' = clock + d
    /\ IF ~loopRuns(running)
       THEN UNCHANGED <<glLocals, lastTime, accumulated, glPc>>
       ELSE /\ lastTime' = clock'
            /\ deltaTime' = clampDelta(clock' - lastTime, frameTime)
            /\ accumulated' = accumulated + deltaTime'
            /\ updates' = 0
            /\ panics' = 0
            /\ frameAcc' = accumulated
            /\ frameDelta' = clock' - lastTime
            /\ escaped' = None
            /\ Drain(accumulated')
    /\ UNCHANGED <<glConfig, running, rafId, frameLog>>

\* the update callback returns: the rest of the loop body, then the loop head
UpdateReturn ==
    /\ UNCHANGED outsideGL
    /\ glPc = "update"
    /\ updates' = updates + 1
    /\ IF updateSpiral(updates', maxUpdatesPerFrame)
       THEN \* handlePanic(); break
            /\ accumulated' = panicAccumulated(accumulated - frameTime)
            /\ panics' = onPanicCalls(panics)
            /\ glPc' = "render"
            /\ renderArg' = accumulated'
            /\ UNCHANGED updateArg
       ELSE /\ accumulated' = accumulated - frameTime
            /\ UNCHANGED panics
            /\ Drain(accumulated')
    /\ UNCHANGED <<glConfig, running, lastTime, rafId, rafPending, clock, deltaTime,
                   frameAcc, frameDelta, frameLog, escaped>>

\* the render callback returns: the next frame callback is requested
RenderReturn ==
    /\ UNCHANGED outsideGL
    /\ glPc = "render"
    /\ rafId' = NewRaf
    /\ rafPending' = rafPending \cup {NewRaf}
    /\ glPc' = "idle"
    /\ frameLog' = Append(frameLog, [d |-> frameDelta, n |-> updates])
    /\ UNCHANGED <<glConfig, glLocals, running, lastTime, accumulated, clock>>

FrameCallback == \E d \in Deltas : FrameBegin(d)

NextLoop ==
    \/ Start
    \/ Stop
    \/ FrameCallback
    \/ UpdateReturn
    \/ RenderReturn

\* variant: the catch block swallows the error
swallowed(e) == None

\* `throw error` of the catch blocks: the caught error itself
rethrown(e) == e

\* a callback throws e: the catch block of loop() calls stop() and rethrows,
\* so the rest of loop() (the next frame request included) is not run
Catch(e) ==
    /\ running' = FALSE
    /\ rafPending' = IF running THEN rafPending \ {rafId} ELSE rafPending
    /\ escaped' = rethrown(e)
    /\ glPc' = "idle"
    /\ frameLog' = Append(frameLog, [d |-> frameDelta, n |-> updates])
    /\ UNCHANGED <<glConfig, lastTime, accumulated, rafId, clock, deltaTime, updates,
                   updateArg, renderArg, panics, frameAcc, frameDelta>>

\* callbacks.update(frameTime) throws e
UpdateThrow(e) ==
    /\ UNCHANGED outsideGL
    /\ glPc = "update"
    /\ Catch(e)

\* callbacks.render(interpolation) throws e
RenderThrow(e) ==
    /\ UNCHANGED outsideGL
    /\ glPc = "render"
    /\ Catch(e)

\* the update or render callback calls stop()
CbStop ==
    /\ UNCHANGED outsideGL
    /\ glPc \in {"update", "render"}
    /\ IF ~running
       THEN UNCHANGED <<running, rafPending>>
       ELSE /\ running' = FALSE
            /\ rafPending' = rafPending \ {rafId}
    /\ UNCHANGED <<glConfig, glLocals, lastTime, accumulated, rafId, clock, glPc,
                   frameLog>>

\* the update or render callback calls start()
CbStart ==
    /\ UNCHANGED outsideGL
    /\ glPc \in {"update", "render"}
    /\ IF running
       THEN UNCHANGED <<running, lastTime, accumulated, rafId, rafPending>>
       ELSE /\ running' = TRUE
            /\ lastTime' = clock
            /\ accumulated' = 0
            /\ rafId' = NewRaf
            /\ rafPending' = rafPending \cup {NewRaf}
    /\ UNCHANGED <<glConfig, glLocals, clock, glPc, frameLog>>

\* wall-clock deltas of the frames whose callbacks throw or call back
\* into the loop: 16.67 and 50 ms
LifecycleDeltas == {5001, 15000}

FrameCallbackFull ==
    /\ Len(frameLog) < MaxLifecycleFrames
    /\ \E d \in LifecycleDeltas : FrameBegin(d)
UpdateThrows == \E e \in Errors : UpdateThrow(e)
RenderThrows == \E e \in Errors : RenderThrow(e)

\* the loop with callbacks that may throw and may call stop() and start()
NextLoopFull ==
    \/ Start
    \/ Stop
    \/ FrameCallbackFull
    \/ UpdateReturn
    \/ RenderReturn
    \/ UpdateThrows
    \/ RenderThrows
    \/ CbStop
    \/ CbStart

(***************************************************************************)
(* Time.  Seconds are kept in the ticks of the loop (300000 to the second). *)
(* The frame counter and the FPS figure never steer the accumulator and are *)
(* left out.                                                                *)
(***************************************************************************)
\* TIME_CONFIG.MAX_DELTA_TIME: 0.25 s, in ms
MAX_DELTA_TIME_MS == 250
\* the divisor of TIME_CONFIG.DEFAULT_FIXED_TIMESTEP: 1 / 60 s
DEFAULT_FIXED_RATE == 60

DEFAULT_FIXED_TIMESTEP == Ms(1000) \div DEFAULT_FIXED_RATE

\* the constructor's argument: not given (0), 0.02 s, 0.1 s, 0.3 s
FixedTimestepOptions == {0, Ms(20), Ms(100), Ms(300)}
\* wall-clock time between update() calls: 0, 16.67, 100, 250, 400 ms
TimeDeltas == {0, 5001, Ms(100), Ms(250), Ms(400)}

\* variant: the frame delta is not clamped
frameDeltaUnclamped(elapsed) == elapsed

\* Math.min((currentTime - lastFrameTime) / 1000, MAX_DELTA_TIME)
clampedDeltaTime(elapsed) == MinOf(elapsed, Ms(MAX_DELTA_TIME_MS))

\* getInterpolationAlpha(): accumulator / fixedTimestep, as numerator and
\* denominator
getInterpolationAlpha == <<timeAccumulator, fixedTimestep>>

\* constructor(fixedTimestep = DEFAULT_FIXED_TIMESTEP), with a valid argument
InitTime(opt) ==
    /\ fixedTimestep = (IF opt = 0 THEN DEFAULT_FIXED_TIMESTEP ELSE opt)
    /\ timeLastFrame = 0
    /\ timeDelta = 0
    /\ timeAccumulator = 0
    /\ timeNow = 0
    /\ timePc = "drained"
    /\ timeSteps = 0
    /\ timeReturn = None
    /\ timeCalls = 0

\* update(), called d ticks after the last reading of the clock, once the
\* fixed steps of the previous frame are drained
TimeUpdate(d) ==
    /\ UNCHANGED outsideTime
    /\ timePc = "drained"
    /\ timeCalls < MaxTimeFrames
    /\ timeNow' = timeNow + d
    /\ timeDelta' = clampedDeltaTime(timeNow' - timeLastFrame)
    /\ timeLastFrame' = timeNow'
    /\ timeAccumulator' = timeAccumulator + timeDelta'
    /\ timePc' = "draining"
    /\ timeSteps' = 0
    /\ timeReturn' = None
    /\ timeCalls' = timeCalls + 1
    /\ UNCHANGED fixedTimestep

\* shouldFixedUpdate(), as the caller's drain loop calls it
ShouldFixedUpdate ==
    /\ UNCHANGED outsideTime
    /\ timePc = "draining"
    /\ IF timeAccumulator >= fixedTimestep
       THEN /\ timeAccumulator' = timeAccumulator - fixedTimestep
            /\ timeReturn' = "true"
            /\ timeSteps' = timeSteps + 1
            /\ UNCHANGED timePc
       ELSE /\ timeReturn' = "false"
            /\ timePc' = "drained"
            /\ UNCHANGED <<timeAccumulator, timeSteps>>
    /\ UNCHANGED <<fixedTimestep, timeLastFrame, timeDelta, timeNow, timeCalls>>

\* reset()
TimeReset ==
    /\ UNCHANGED outsideTime
    /\ timeLastFrame' = timeNow
    /\ timeDelta' = 0
    /\ timeAccumulator' = 0
    /\ UNCHANGED <<fixedTimestep, timeNow, timePc, timeSteps, timeReturn, timeCalls>>

TimeUpdateCall == \E d \in TimeDeltas : TimeUpdate(d)

NextTime ==
    \/ TimeUpdateCall
    \/ ShouldFixedUpdate
    \/ TimeReset

(***************************************************************************)
(* CollisionSystem.  A JavaScript number is a record: k is "num" for a      *)
(* finite number, whose value v counts twentieths of a unit (so that the    *)
(* 0.1 of the direction test and half of a width are exact), and "NaN",     *)
(* "Infinity", "-Infinity" or "undefined" otherwise.                        *)
(***************************************************************************)
UnitsPerOne == 20
\* the 0.1 of getHorizontalDirection / getVerticalDirection, as a divisor of 1
DIRECTION_EPSILON_INVERSE == 10

DirectionEpsilon == UnitsPerOne \div DIRECTION_EPSILON_INVERSE

Num(n) == [k |-> "num", v |-> n]
NotNum(kind) == [k |-> kind, v |-> 0]

\* Number.isFinite
isFinite(j) == j.k = "num"

\* coordinates 0, 0.05, 0.1, 1, 2.25 and sizes 0, 1
BoxXs == {0, 1, 2, 20, 45}
BoxYs == {0, 2, 20}
BoxWidths == {0, 20}
BoxHeights == {0, 20}

Box(x, y, w, h) == [x |-> x, y |-> y, width |-> w, height |-> h]

ValidBoxes ==
    {Box(Num(x), Num(y), Num(w), Num(h)) :
        x \in BoxXs, y \in BoxYs, w \in BoxWidths, h \in BoxHeights}

\* boxes with non-finite or missing fields and negative sizes among them
RawBoxes ==
    {Box(x, y, w, h) :
        x \in {Num(0), NotNum("NaN")},
        y \in {Num(0), NotNum("-Infinity")},
        w \in {Num(20), Num(0), Num(-20), NotNum("Infinity")},
        h \in {Num(20), Num(-1), NotNum("undefined")}}

Boxes == ValidBoxes \cup RawBoxes

Points ==
    {[x |-> x, y |-> y] :
        x \in {Num(0), Num(20), Num(21), Num(-1), NotNum("NaN")},
        y \in {Num(0), Num(20), Num(40), NotNum("Infinity")}}

\* arguments of createBoundingBox
CreateArgs ==
    {<<x, y, w, h>> :
        x \in {Num(0), Num(45), NotNum("NaN")},
        y \in {Num(2), NotNum("-Infinity")},
        w \in {Num(20), Num(0), Num(-20), NotNum("Infinity")},
        h \in {Num(20), Num(0), Num(-1), NotNum("NaN")}}

MaxOf(a, b) == IF a >= b THEN a ELSE b
Abs(a) == IF a < 0 THEN -a ELSE a

\* variant: negative sizes pass
validateBoundingBoxAnySize(box) ==
    isFinite(box.x) /\ isFinite(box.y) /\ isFinite(box.width) /\ isFinite(box.height)

\* validateBoundingBox returns (TRUE) or throws (FALSE); the box is an object
validateBoundingBox(box) ==
    /\ isFinite(box.x) /\ isFinite(box.y) /\ isFinite(box.width) /\ isFinite(box.height)
    /\ ~(box.width.v < 0 \/ box.height.v < 0)

\* validatePoint returns (TRUE) or throws (FALSE); the point is an object
validatePoint(point) == isFinite(point.x) /\ isFinite(point.y)

\* variant: the tests of box B lying before box A are missing
separatedOneSided(ax, aw, ay, ah, bx, bw, by, bh) ==
    \/ ax + aw < bx
    \/ ay + ah < by

\* variant: `<=` in place of `<`
separatedOpen(ax, aw, ay, ah, bx, bw, by, bh) ==
    \/ ax + aw <= bx
    \/ bx + bw <= ax
    \/ ay + ah <= by
    \/ by + bh <= ay

\* the four separation tests of checkCollision
separated(ax, aw, ay, ah, bx, bw, by, bh) ==
    \/ ax + aw < bx
    \/ bx + bw < ax
    \/ ay + ah < by
    \/ by + bh < ay

\* variant: the far edge of A minus the near edge of B
overlapFirstOnly(lo1, len1, lo2, len2) == (lo1 + len1) - lo2

\* Math.min(far edges) - Math.max(near edges)
overlapExtent(lo1, len1, lo2, len2) ==
    MinOf(lo1 + len1, lo2 + len2) - MaxOf(lo1, lo2)

\* the center comparison of getHorizontalDirection / getVerticalDirection on
\* one axis, on twice the centers: "none", "less" (centerA < centerB) or "more"
compareCenters(lo1, len1, lo2, len2) ==
    LET twiceA == 2 * lo1 + len1
        twiceB == 2 * lo2 + len2
    IN IF Abs(twiceA - twiceB) < 2 * DirectionEpsilon THEN "none"
       ELSE IF twiceA < twiceB THEN "less" ELSE "more"

getHorizontalDirection(a, b) ==
    LET c == compareCenters(a.x.v, a.width.v, b.x.v, b.width.v)
    IN IF c = "none" THEN "none" ELSE IF c = "less" THEN "right" ELSE "left"

getVerticalDirection(a, b) ==
    LET c == compareCenters(a.y.v, a.height.v, b.y.v, b.height.v)
    IN IF c = "none" THEN "none" ELSE IF c = "less" THEN "bottom" ELSE "top"

\* the outcome of a call.  A part of the result that is absent is the empty
\* set, a part that is present is the set of its value.
Absent == {}
Some(x) == {x}

\* a call that threw: there is no result
Thrown == [threw |-> TRUE, colliding |-> Absent, overlap |-> Absent,
           direction |-> Absent, box |-> Absent, inside |-> Absent]

Returned == [threw |-> FALSE, colliding |-> Absent, overlap |-> Absent,
             direction |-> Absent, box |-> Absent, inside |-> Absent]

\* checkCollision(boxA, boxB)
checkCollision(a, b) ==
    IF ~(validateBoundingBox(a) /\ validateBoundingBox(b)) THEN Thrown
    ELSE IF separated(a.x.v, a.width.v, a.y.v, a.height.v,
                      b.x.v, b.width.v, b.y.v, b.height.v)
    THEN [Returned EXCEPT !.colliding = Some(FALSE)]
    ELSE [Returned EXCEPT
            !.colliding = Some(TRUE),
            !.overlap = Some([x |-> overlapExtent(a.x.v, a.width.v, b.x.v, b.width.v),
                              y |-> overlapExtent(a.y.v, a.height.v, b.y.v, b.height.v)]),
            !.direction = Some([horizontal |-> getHorizontalDirection(a, b),
                                vertical |-> getVerticalDirection(a, b)])]

\* variant: `>` and `<` in place of `>=` and `<=`
isPointInBoxStrict(point, box) ==
    IF ~(validatePoint(point) /\ validateBoundingBox(box)) THEN Thrown
    ELSE [Returned EXCEPT
            !.inside = Some(/\ point.x.v > box.x.v
                            /\ point.x.v < box.x.v + box.width.v
                            /\ point.y.v > box.y.v
                            /\ point.y.v < box.y.v + box.height.v)]

\* isPointInBox(point, box)
isPointInBox(point, box) ==
    IF ~(validatePoint(point) /\ validateBoundingBox(box)) THEN Thrown
    ELSE [Returned EXCEPT
            !.inside = Some(/\ point.x.v >= box.x.v
                            /\ point.x.v <= box.x.v + box.width.v
                            /\ point.y.v >= box.y.v
                            /\ point.y.v <= box.y.v + box.height.v)]

\* createBoundingBox(x, y, width, height)
createBoundingBox(x, y, w, h) ==
    IF ~(isFinite(x) /\ isFinite(y) /\ isFinite(w) /\ isFinite(h)) THEN Thrown
    ELSE IF w.v < 0 \/ h.v < 0 THEN Thrown
    ELSE [Returned EXCEPT !.box = Some(Box(x, y, w, h))]

\* the functions are static and keep no state: a behaviour is one call
InitCol == colCall = [op |-> "none", a |-> None, b |-> None, out |-> Returned]

CheckCollision(a, b) ==
    /\ UNCHANGED outsideCol
    /\ colCall' = [op |-> "checkCollision", a |-> a, b |-> b, out |-> checkCollision(a, b)]

IsPointInBox(point, box) ==
    /\ UNCHANGED outsideCol
    /\ colCall' = [op |-> "isPointInBox", a |-> point, b |-> box,
                   out |-> isPointInBox(point, box)]

CreateBoundingBox(args) ==
    /\ UNCHANGED outsideCol
    /\ colCall' = [op |-> "createBoundingBox", a |-> args, b |-> None,
                   out |-> createBoundingBox(args[1], args[2], args[3], args[4])]

NoCallYet == colCall.op = "none"

CheckCollisionCall ==
    NoCallYet /\ \E a \in Boxes, b \in Boxes : CheckCollision(a, b)
IsPointInBoxCall ==
    NoCallYet /\ \E point \in Points, box \in Boxes : IsPointInBox(point, box)
CreateBoundingBoxCall ==
    NoCallYet /\ \E args \in CreateArgs : CreateBoundingBox(args)

NextCol ==
    \/ CheckCollisionCall
    \/ IsPointInBoxCall
    \/ CreateBoundingBoxCall

(***************************************************************************)
(* QuadTree.  A node is a record of its bounds, its objects (in array       *)
(* order), its nodes (none or four, index 0..3 of the source at 1..4) and   *)
(* its level.  Coordinates are whole units; the root bounds of the model    *)
(* halve exactly at every level they reach.                                 *)
(***************************************************************************)
MAX_OBJECTS == 10
MAX_LEVELS == 5
MIN_SIZE == 16

\* bounds given to the constructor: too small to split, splitting once, and
\* splitting down to MAX_LEVELS
RootBounds == {Box(0, 0, 20, 20), Box(0, 0, 32, 32), Box(0, 0, 512, 512)}

\* bounds of inserted objects: a small box near the origin, and one other
\* shape per tree: a box crossing the midpoints of the small nodes, a box whose
\* right edge is on a midpoint, a point outside the root, a far point
SmallBox == Box(1, 1, 1, 1)
OtherBoxes ==
    {Box(1, 1, 20, 20), Box(15, 1, 1, 1), Box(-5, -5, 0, 0), Box(300, 300, 0, 0)}
Palettes == {{SmallBox, b} : b \in OtherBoxes}

\* bounds passed to retrieve
Queries ==
    {Box(0, 0, 512, 512), Box(0, 0, 2, 2), Box(16, 0, 4, 4), Box(-5, -5, 1, 1),
     Box(2, 2, 300, 300)}

validateBounds(bounds) == bounds.width > 0 /\ bounds.height > 0

\* new QuadTree(bounds, level), bounds valid
QuadTree(bounds, level) ==
    [bounds |-> bounds, objects |-> <<>>, nodes |-> <<>>, level |-> level]

\* variant: the children are kept
clearObjectsOnly(t) == [t EXCEPT !.objects = <<>>]

\* clear(): the children are cleared and then dropped with the array
clear(t) == [t EXCEPT !.objects = <<>>, !.nodes = <<>>]

\* variant: no minimum size
splitAnySize(t) ==
    LET subWidth == t.bounds.width \div 2
        subHeight == t.bounds.height \div 2
        x == t.bounds.x
        y == t.bounds.y
    IN [t EXCEPT !.nodes =
            << QuadTree(Box(x, y, subWidth, subHeight), t.level + 1),
               QuadTree(Box(x + subWidth, y, subWidth, subHeight), t.level + 1),
               QuadTree(Box(x, y + subHeight, subWidth, subHeight), t.level + 1),
               QuadTree(Box(x + subWidth, y + subHeight, subWidth, subHeight),
                        t.level + 1) >>]

\* split(): the node with its four children, or unchanged when they would be
\* smaller than MIN_SIZE
split(t) ==
    LET subWidth == t.bounds.width \div 2
        subHeight == t.bounds.height \div 2
        x == t.bounds.x
        y == t.bounds.y
    IN IF subWidth < MIN_SIZE \/ subHeight < MIN_SIZE THEN t
       ELSE [t EXCEPT !.nodes =
               << QuadTree(Box(x, y, subWidth, subHeight), t.level + 1),
                  QuadTree(Box(x + subWidth, y, subWidth, subHeight), t.level + 1),
                  QuadTree(Box(x, y + subHeight, subWidth, subHeight), t.level + 1),
                  QuadTree(Box(x + subWidth, y + subHeight, subWidth, subHeight),
                           t.level + 1) >>]

\* getIndex(bounds) of the node with bounds nb: 0..3, or -1
getIndex(nb, bounds) ==
    LET verticalMidpoint == nb.x + (nb.width \div 2)
        horizontalMidpoint == nb.y + (nb.height \div 2)
        topQuadrant == /\ bounds.y < horizontalMidpoint
                       /\ bounds.y + bounds.height < horizontalMidpoint
        bottomQuadrant == bounds.y > horizontalMidpoint
    IN IF bounds.x < verticalMidpoint /\ bounds.x + bounds.width < verticalMidpoint
       THEN (IF topQuadrant THEN 0 ELSE IF bottomQuadrant THEN 2 ELSE -1)
       ELSE IF bounds.x > verticalMidpoint
       THEN (IF topQuadrant THEN 1 ELSE IF bottomQuadrant THEN 3 ELSE -1)
       ELSE -1

\* objects.splice(i, 1)
Splice(objects, i) == SubSeq(objects, 1, i - 1) \o SubSeq(objects, i + 1, Len(objects))

\* the outcome of insert: the node afterwards, whether a TypeError was
\* thrown, and the bounds of the nodes that got children, in order
Outcome(t, threw, splits) == [tree |-> t, threw |-> threw, splits |-> splits]

\* the while loop of insert before its first iteration (i counts from 1)
LoopEntry(t) == [tree |-> t, i |-> 1, threw |-> FALSE, splits |-> <<>>]

\* variant: nothing is moved into the children
redistributeNothing(t, k) == LoopEntry(t)

RECURSIVE insert(_, _), redistribute(_, _)

\* the while loop of insert after at most k iterations: the node, the index
\* i, whether a TypeError was thrown and the bounds of the nodes that got
\* children.  An iteration runs while `i < this.objects.length`.  With no
\* children (split() returned early) `this.nodes[index]` is undefined and
\* calling insert on it throws a TypeError, after the splice.
redistribute(t, k) ==
    IF k = 0 THEN LoopEntry(t)
    ELSE LET st == redistribute(t, k - 1)
             node == st.tree
         IN IF st.threw \/ ~(st.i <= Len(node.objects)) THEN st
            ELSE LET index == getIndex(node.bounds, node.objects[st.i].bounds)
                 IN IF index = -1 THEN [st EXCEPT !.i = st.i + 1]
                    ELSE LET spliced == [node EXCEPT !.objects = Splice(@, st.i)]
                         IN IF Len(node.nodes) = 0
                            THEN [st EXCEPT !.tree = spliced, !.threw = TRUE]
                            ELSE LET r == insert(node.nodes[index + 1], node.objects[st.i])
                                 IN [tree |-> [spliced EXCEPT !.nodes[index + 1] = r.tree],
                                     i |-> st.i,
                                     threw |-> r.threw,
                                     splits |-> st.splits \o r.splits]

\* insert(object), object and object.bounds present.  Every iteration of the
\* loop removes an object or advances i, so the loop ends within as many
\* iterations as the node holds objects.
insert(t, object) ==
    LET index == IF Len(t.nodes) # 0 THEN getIndex(t.bounds, object.bounds) ELSE -1
    IN IF index # -1
       THEN LET r == insert(t.nodes[index + 1], object)
            IN Outcome([t EXCEPT !.nodes[index + 1] = r.tree], r.threw, r.splits)
       ELSE LET pushed == [t EXCEPT !.objects = Append(@, object)]
            IN IF Len(pushed.objects) > MAX_OBJECTS /\ t.level < MAX_LEVELS
               THEN LET s == IF Len(pushed.nodes) = 0 THEN split(pushed) ELSE pushed
                        r == redistribute(s, Len(s.objects))
                        here == IF Len(s.nodes) # Len(pushed.nodes)
                                THEN <<t.bounds>> ELSE <<>>
                    IN Outcome(r.tree, r.threw, here \o r.splits)
               ELSE Outcome(pushed, FALSE, <<>>)

RECURSIVE retrieve(_, _)

\* retrieve(bounds): the objects of this node, then those of the child the
\* bounds fit in, or of all four children
retrieve(t, bounds) ==
    LET index == getIndex(t.bounds, bounds)
    IN t.objects \o
       (IF Len(t.nodes) # 0
        THEN IF index # -1 THEN retrieve(t.nodes[index + 1], bounds)
             ELSE retrieve(t.nodes[1], bounds) \o retrieve(t.nodes[2], bounds)
                  \o retrieve(t.nodes[3], bounds) \o retrieve(t.nodes[4], bounds)
        ELSE <<>>)

\* variant: bounds that only share an edge do not intersect
boundsIntersectOpen(boundsA, boundsB) ==
    ~(\/ boundsA.x + boundsA.width <= boundsB.x
      \/ boundsA.x >= boundsB.x + boundsB.width
      \/ boundsA.y + boundsA.height <= boundsB.y
      \/ boundsA.y >= boundsB.y + boundsB.height)

\* QuadTree.checkCollision(boundsA, boundsB)
boundsIntersect(boundsA, boundsB) ==
    ~(\/ boundsA.x + boundsA.width < boundsB.x
      \/ boundsA.x > boundsB.x + boundsB.width
      \/ boundsA.y + boundsA.height < boundsB.y
      \/ boundsA.y > boundsB.y + boundsB.height)

\* new QuadTree(bounds)
InitQT(bounds) ==
    /\ validateBounds(bounds)
    /\ qtTree = QuadTree(bounds, 0)
    /\ qtInserted = <<>>
    /\ qtSplits = <<>>
    /\ qtCall = [op |-> "new", threw |-> FALSE]
    /\ qtDropped = FALSE

\* tree.insert({id, bounds}); the caller numbers its objects
Insert(bounds) ==
    LET object == [id |-> Len(qtInserted) + 1, bounds |-> bounds]
        r == insert(qtTree, object)
    IN /\ qtTree' = r.tree
       /\ qtInserted' = Append(qtInserted, object)
       /\ qtSplits' = qtSplits \o r.splits
       /\ qtCall' = [op |-> "insert", threw |-> r.threw]
       /\ UNCHANGED <<qtDropped, outsideQT>>

\* tree.clear()
Clear ==
    /\ qtTree' = clear(qtTree)
    /\ qtInserted' = <<>>
    /\ qtSplits' = <<>>
    /\ qtCall' = [op |-> "clear", threw |-> FALSE]
    /\ qtDropped' = (Len(qtTree.nodes) # 0)
    /\ UNCHANGED outsideQT

\* the objects of a tree take the bounds of one palette
InsertCall ==
    /\ Len(qtInserted) < MaxInserts
    /\ \E bounds \in UNION Palettes :
        /\ \E p \in Palettes : {o.bounds : o \in Range(qtInserted)} \cup {bounds} \subseteq p
        /\ Insert(bounds)

NextQT ==
    \/ InsertCall
    \/ Clear

(***************************************************************************)
(* KeyboardController.  Listeners are callbacks that return or throw and    *)
(* do not call back into the controller.                                    *)
(***************************************************************************)
LEFT_KEYS == {"ArrowLeft", "a", "A"}
RIGHT_KEYS == {"ArrowRight", "d", "D"}

\* event.key of the key events: two left keys, a right key and another key
Keys == {"ArrowLeft", "a", "ArrowRight", "x"}

\* the listener functions of the callers; calling l2 throws
Listeners == {"l1", "l2"}
ThrowingListeners == {"l2"}

\* the object {}
EmptyObject == [key \in {} |-> FALSE]

\* Set.prototype.add on the insertion-ordered Set
listenersAdd(set, listener) ==
    IF listener \in Range(set) THEN set ELSE Append(set, listener)

\* Set.prototype.delete
listenersDelete(set, listener) == SelectSeq(set, LAMBDA l : l # listener)

\* KEYBOARD_CONFIG.LEFT_KEYS.some(key => this.keyState[key]), and RIGHT_KEYS
somePressed(keys, state) == \E key \in keys \cap DOMAIN state : state[key] = TRUE

\* the newDirection of updateMovementDirection
newDirectionOf(state) ==
    LET isLeftPressed == somePressed(LEFT_KEYS, state)
        isRightPressed == somePressed(RIGHT_KEYS, state)
    IN IF isLeftPressed /\ isRightPressed THEN "none"
       ELSE IF isLeftPressed THEN "left"
       ELSE IF isRightPressed THEN "right"
       ELSE "none"

\* notifyListeners(): every listener of the Set is called once with the
\* direction; what a listener throws is caught and logged
notifyListeners(set, direction) ==
    [i \in 1..Len(set) |->
        [listener |-> set[i], direction |-> direction,
         threw |-> set[i] \in ThrowingListeners]]

\* new KeyboardController()
InitKB ==
    /\ keyState = EmptyObject
    /\ currentDirection = "none"
    /\ isEnabled = FALSE
    /\ listeners = <<>>
    /\ windowHandlers = {}
    /\ kbStanding = [l \in Listeners |-> "none"]
    /\ kbNotified = <<>>
    /\ kbCall = [op |-> "new", arg |-> None]

\* initialize(); window.addEventListener does not throw
Initialize ==
    /\ IF isEnabled
       THEN UNCHANGED <<windowHandlers, isEnabled>>
       ELSE /\ windowHandlers' = windowHandlers \cup {"keydown", "keyup"}
            /\ isEnabled' = TRUE
    /\ kbCall' = [op |-> "initialize", arg |-> None]
    /\ UNCHANGED <<keyState, currentDirection, listeners, kbStanding, kbNotified, outsideKB>>

\* the listeners after dispose(): cleared, unless dispose() returned at
\* `if (!this.isEnabled)`
disposeListeners(enabled, set) == IF enabled THEN <<>> ELSE set

\* dispose(); window.removeEventListener does not throw
Dispose ==
    /\ IF ~isEnabled
       THEN UNCHANGED <<windowHandlers, isEnabled, keyState, currentDirection>>
       ELSE /\ windowHandlers' = windowHandlers \ {"keydown", "keyup"}
            /\ isEnabled' = FALSE
            /\ keyState' = EmptyObject
            /\ currentDirection' = "none"
    /\ listeners' = disposeListeners(isEnabled, listeners)
    /\ kbStanding' = [l \in Listeners |->
                        IF kbStanding[l] = "added" THEN "disposed" ELSE kbStanding[l]]
    /\ kbCall' = [op |-> "dispose", arg |-> None]
    /\ UNCHANGED <<kbNotified, outsideKB>>

\* addMovementListener(listener)
AddMovementListener(listener) ==
    /\ listeners' = listenersAdd(listeners, listener)
    /\ kbStanding' = [kbStanding EXCEPT ![listener] = "added"]
    /\ kbCall' = [op |-> "addMovementListener", arg |-> listener]
    /\ UNCHANGED <<keyState, currentDirection, isEnabled, windowHandlers, kbNotified,
                   outsideKB>>

\* removeMovementListener(listener)
RemoveMovementListener(listener) ==
    /\ listeners' = listenersDelete(listeners, listener)
    /\ kbStanding' = [kbStanding EXCEPT ![listener] = "removed"]
    /\ kbCall' = [op |-> "removeMovementListener", arg |-> listener]
    /\ UNCHANGED <<keyState, currentDirection, isEnabled, windowHandlers, kbNotified,
                   outsideKB>>

\* a key event on window: handleKeyDown / handleKeyUp run if window holds
\* them, set keyState[event.key] and run updateMovementDirection
KeyEvent(type, key, pressed) ==
    LET handled == type \in windowHandlers /\ isEnabled
        state == [k \in DOMAIN keyState \cup {key} |->
                    IF k = key THEN pressed ELSE keyState[k]]
        newDirection == newDirectionOf(state)
        changed == handled /\ currentDirection # newDirection
    IN /\ keyState' = IF handled THEN state ELSE keyState
       /\ currentDirection' = IF changed THEN newDirection ELSE currentDirection
       /\ kbNotified' = IF changed THEN notifyListeners(listeners, newDirection) ELSE <<>>
       /\ kbCall' = [op |-> type, arg |-> key]
       /\ UNCHANGED <<isEnabled, listeners, windowHandlers, kbStanding, outsideKB>>

KeyDown(key) == KeyEvent("keydown", key, TRUE)
KeyUp(key) == KeyEvent("keyup", key, FALSE)

AddMovementListenerCall == \E listener \in Listeners : AddMovementListener(listener)
RemoveMovementListenerCall == \E listener \in Listeners : RemoveMovementListener(listener)
KeyDownEvent == \E key \in Keys : KeyDown(key)
KeyUpEvent == \E key \in Keys : KeyUp(key)

NextKB ==
    \/ Initialize
    \/ Dispose
    \/ AddMovementListenerCall
    \/ RemoveMovementListenerCall
    \/ KeyDownEvent
    \/ KeyUpEvent

(***************************************************************************)
(* GameStateManager.  A state object is named by the type it is registered *)
(* under; its enter() and exit() return or throw and call nothing back.    *)
(***************************************************************************)
GameStateType == {"LOADING", "MENU", "PLAYING", "PAUSED", "GAME_OVER"}

\* initializeTransitions()
allowedTransitions ==
    [t \in GameStateType |->
        CASE t = "LOADING" -> {"MENU"}
          [] t = "MENU" -> {"PLAYING", "LOADING"}
          [] t = "PLAYING" -> {"PAUSED", "GAME_OVER"}
          [] t = "PAUSED" -> {"PLAYING", "MENU"}
          [] t = "GAME_OVER" -> {"MENU", "PLAYING"}]

\* variant: every transition is valid
isValidTransitionAny(current, newStateType) == TRUE

\* isValidTransition(newStateType), with this.currentStateType
isValidTransition(current, newStateType) ==
    IF current = None THEN TRUE
    ELSE newStateType \in allowedTransitions[current]

\* a call record: the operation, its argument, whether it threw, and whether
\* it called exit() on the current state and enter() on the new one
GsmCall(op, arg, threw, exitCalled, enterCalled) ==
    [op |-> op, arg |-> arg, threw |-> threw, exitCalled |-> exitCalled,
     enterCalled |-> enterCalled]

\* getInstance() for the first time
InitGSM ==
    /\ states = {}
    /\ currentState = None
    /\ currentStateType = None
    /\ gsmExited = {}
    /\ gsmCall = GsmCall("new", None, FALSE, FALSE, FALSE)

\* registerState(stateType, state)
RegisterState(stateType) ==
    /\ UNCHANGED outsideGSM
    /\ IF stateType \in states
       THEN /\ gsmCall' = GsmCall("registerState", stateType, TRUE, FALSE, FALSE)
            /\ UNCHANGED states
       ELSE /\ gsmCall' = GsmCall("registerState", stateType, FALSE, FALSE, FALSE)
            /\ states' = states \cup {stateType}
    /\ UNCHANGED <<currentState, currentStateType, gsmExited>>

\* the exited states after a transitionTo whose enter() threw: exit() was
\* called on the current state before enter()
exitedAfterFailedEnter(exited, current) ==
    IF current # None THEN exited \cup {current} ELSE exited

\* transitionTo(newStateType); exitThrows and enterThrows say what the
\* callbacks do when they are called
TransitionTo(newStateType, exitThrows, enterThrows) ==
    /\ UNCHANGED outsideGSM
    /\ UNCHANGED states
    /\ IF ~isValidTransition(currentStateType, newStateType)
          \/ newStateType \notin states
       THEN \* throw new Error: invalid transition, or not registered
            /\ gsmCall' = GsmCall("transitionTo", newStateType, TRUE, FALSE, FALSE)
            /\ UNCHANGED <<currentState, currentStateType, gsmExited>>
       ELSE IF enterThrows
       THEN \* exit() was called and what it threw was logged; enter() throws
            /\ gsmCall' = GsmCall("transitionTo", newStateType, TRUE,
                                  currentState # None, TRUE)
            /\ gsmExited' = exitedAfterFailedEnter(gsmExited, currentState)
            /\ UNCHANGED <<currentState, currentStateType>>
       ELSE /\ gsmCall' = GsmCall("transitionTo", newStateType, FALSE,
                                  currentState # None, TRUE)
            /\ gsmExited' = (IF currentState # None THEN gsmExited \cup {currentState}
                             ELSE gsmExited) \ {newStateType}
            /\ currentState' = newStateType
            /\ currentStateType' = newStateType

\* reset(); exit() of the current state is called outside any try block
Reset(exitThrows) ==
    /\ UNCHANGED outsideGSM
    /\ UNCHANGED states
    /\ IF currentState # None /\ exitThrows
       THEN /\ gsmCall' = GsmCall("reset", None, TRUE, TRUE, FALSE)
            /\ gsmExited' = gsmExited \cup {currentState}
            /\ UNCHANGED <<currentState, currentStateType>>
       ELSE /\ gsmCall' = GsmCall("reset", None, FALSE, currentState # None, FALSE)
            /\ gsmExited' = IF currentState # None THEN gsmExited \cup {currentState}
                            ELSE gsmExited
            /\ currentState' = None
            /\ currentStateType' = None

RegisterStateCall == \E stateType \in GameStateType : RegisterState(stateType)
TransitionToCall ==
    \E newStateType \in GameStateType, exitThrows, enterThrows \in BOOLEAN :
        TransitionTo(newStateType, exitThrows, enterThrows)
ResetCall == \E exitThrows \in BOOLEAN : Reset(exitThrows)

NextGSM ==
    \/ RegisterStateCall
    \/ TransitionToCall
    \/ ResetCall

(***************************************************************************)
(* WaveManager.  Timers run in the order of their due time and, for equal   *)
(* due times, of their setTimeout calls; the callbacks the manager invokes  *)
(* return and call nothing back.                                            *)
(***************************************************************************)
initialEnemyCount == 5
enemyCountIncrement == 2
timeBetweenWaves == 10000

\* the times, in ms, that pass before a call is made
CallDelays == {0, 500, 5000}

\* calculateEnemyDistribution(totalEnemies, difficulty)
calculateEnemyDistribution(totalEnemies) ==
    <<[type |-> "basic", count |-> (totalEnemies * 6) \div 10, spawnDelay |-> 1000],
      [type |-> "fast", count |-> (totalEnemies * 3) \div 10, spawnDelay |-> 1500],
      [type |-> "tough", count |-> (totalEnemies * 1) \div 10, spawnDelay |-> 2000]>>

\* generateWaveData().enemies, called when this.currentWave is wave
generateWaveData(wave) ==
    LET waveNumber == wave + 1
    IN calculateEnemyDistribution(
          initialEnemyCount + enemyCountIncrement * (waveNumber - 1))

\* a timer: its id (the number of its setTimeout call), when it is due, what
\* its callback is, and the stop() calls made before it was set
Timer(id, due, kind, type, wave) ==
    [id |-> id, due |-> due, kind |-> kind, type |-> type, wave |-> wave,
     stops |-> wmStops]

\* spawnWaveEnemies(waveData): the timers it sets, the first with id seq + 1
spawnWaveEnemies(enemies, wave, seq) ==
    LET before(k) == IF k = 1 THEN 0
                     ELSE IF k = 2 THEN enemies[1].count
                     ELSE enemies[1].count + enemies[2].count
        total == enemies[1].count + enemies[2].count + enemies[3].count
        maxSpawnDelay ==
            MaxOf(enemies[1].spawnDelay * enemies[1].count,
                  MaxOf(enemies[2].spawnDelay * enemies[2].count,
                        enemies[3].spawnDelay * enemies[3].count))
    IN {Timer(seq + before(k) + i + 1, wmNow' + enemies[k].spawnDelay * i, "spawn",
              enemies[k].type, wave) : <<k, i>> \in
                {<<k, i>> \in (1..3) \X (0..total) : i < enemies[k].count}}
       \cup {Timer(seq + total + 1, wmNow' + maxSpawnDelay, "complete", None, wave)}

\* the number of setTimeout calls of spawnWaveEnemies
spawnTimerCount(enemies) ==
    enemies[1].count + enemies[2].count + enemies[3].count + 1

\* startNextWave() while isWaveActive is true, with the timers left in rest
startNextWave(rest) ==
    LET wave == currentWave + 1
        enemies == generateWaveData(wave)
        next == wmSeq + spawnTimerCount(enemies) + 1
    IN /\ currentWave' = wave
       /\ wmTimers' = rest \cup spawnWaveEnemies(enemies, wave, wmSeq)
                       \cup {Timer(next, wmNow' + timeBetweenWaves, "next", None, wave)}
       /\ waveTimeout' = next
       /\ wmSeq' = next

\* new WaveManager()
InitWM ==
    /\ currentWave = 0
    /\ isWaveActive = FALSE
    /\ waveTimeout = 0
    /\ onWaveComplete = FALSE
    /\ onEnemySpawn = FALSE
    /\ wmTimers = {}
    /\ wmNow = 0
    /\ wmSeq = 0
    /\ wmStops = 0
    /\ wmCalls = 0
    /\ wmEvent = [op |-> "new", threw |-> FALSE, invoked |-> FALSE, timer |-> None]

\* a call is made d ms after the last event, before the timers due then
CallAfter(d) ==
    /\ UNCHANGED outsideWM
    /\ wmCalls < MaxWaveCalls
    /\ \A t \in wmTimers : t.due >= wmNow + d
    /\ wmNow' = wmNow + d
    /\ wmCalls' = wmCalls + 1

\* start()
WaveStart(d) ==
    /\ CallAfter(d)
    /\ IF isWaveActive
       THEN /\ wmEvent' = [op |-> "start", threw |-> TRUE, invoked |-> FALSE,
                           timer |-> None]
            /\ UNCHANGED <<currentWave, isWaveActive, waveTimeout, wmTimers, wmSeq>>
       ELSE /\ currentWave < MaxWaves
            /\ isWaveActive' = TRUE
            /\ startNextWave(wmTimers)
            /\ wmEvent' = [op |-> "start", threw |-> FALSE, invoked |-> FALSE,
                           timer |-> None]
    /\ UNCHANGED <<onWaveComplete, onEnemySpawn, wmStops>>

\* stop()
WaveStop(d) ==
    /\ CallAfter(d)
    /\ isWaveActive' = FALSE
    /\ wmTimers' = {t \in wmTimers : t.id # waveTimeout}
    /\ waveTimeout' = 0
    /\ wmStops' = wmStops + 1
    /\ wmEvent' = [op |-> "stop", threw |-> FALSE, invoked |-> FALSE, timer |-> None]
    /\ UNCHANGED <<currentWave, onWaveComplete, onEnemySpawn, wmSeq>>

\* onWaveCompleted(callback)
OnWaveCompleted(d) ==
    /\ CallAfter(d)
    /\ onWaveComplete' = TRUE
    /\ wmEvent' = [op |-> "onWaveCompleted", threw |-> FALSE, invoked |-> FALSE,
                   timer |-> None]
    /\ UNCHANGED <<currentWave, isWaveActive, waveTimeout, onEnemySpawn, wmTimers,
                   wmSeq, wmStops>>

\* onEnemySpawned(callback)
OnEnemySpawned(d) ==
    /\ CallAfter(d)
    /\ onEnemySpawn' = TRUE
    /\ wmEvent' = [op |-> "onEnemySpawned", threw |-> FALSE, invoked |-> FALSE,
                   timer |-> None]
    /\ UNCHANGED <<currentWave, isWaveActive, waveTimeout, onWaveComplete, wmTimers,
                   wmSeq, wmStops>>

\* the timer that runs next
NextTimer ==
    CHOOSE t \in wmTimers :
        \A u \in wmTimers : t.due < u.due \/ (t.due = u.due /\ t.id <= u.id)

\* the callback of a timer of spawnWaveEnemies' loop runs
SpawnTimer ==
    /\ UNCHANGED outsideWM
    /\ wmTimers # {}
    /\ NextTimer.kind = "spawn"
    /\ wmNow' = NextTimer.due
    /\ wmTimers' = wmTimers \ {NextTimer}
    /\ wmEvent' = [op |-> "spawn", threw |-> FALSE,
                   invoked |-> isWaveActive /\ onEnemySpawn, timer |-> NextTimer]
    /\ UNCHANGED <<currentWave, isWaveActive, waveTimeout, onWaveComplete,
                   onEnemySpawn, wmSeq, wmStops, wmCalls>>

\* the callback of the completion timer of spawnWaveEnemies runs
CompleteTimer ==
    /\ UNCHANGED outsideWM
    /\ wmTimers # {}
    /\ NextTimer.kind = "complete"
    /\ wmNow' = NextTimer.due
    /\ wmTimers' = wmTimers \ {NextTimer}
    /\ wmEvent' = [op |-> "complete", threw |-> FALSE, invoked |-> onWaveComplete,
                   timer |-> NextTimer]
    /\ UNCHANGED <<currentWave, isWaveActive, waveTimeout, onWaveComplete,
                   onEnemySpawn, wmSeq, wmStops, wmCalls>>

\* the callback of the timer of scheduleNextWave runs: startNextWave()
NextWaveTimer ==
    /\ UNCHANGED outsideWM
    /\ wmTimers # {}
    /\ NextTimer.kind = "next"
    /\ wmNow' = NextTimer.due
    /\ wmEvent' = [op |-> "next", threw |-> FALSE, invoked |-> FALSE,
                   timer |-> NextTimer]
    /\ IF ~isWaveActive
       THEN /\ wmTimers' = wmTimers \ {NextTimer}
            /\ UNCHANGED <<currentWave, waveTimeout, wmSeq>>
       ELSE /\ currentWave < MaxWaves
            /\ startNextWave(wmTimers \ {NextTimer})
    /\ UNCHANGED <<isWaveActive, onWaveComplete, onEnemySpawn, wmStops, wmCalls>>

WaveStartCall == \E d \in CallDelays : WaveStart(d)
WaveStopCall == \E d \in CallDelays : WaveStop(d)
OnWaveCompletedCall == \E d \in CallDelays : OnWaveCompleted(d)
OnEnemySpawnedCall == \E d \in CallDelays : OnEnemySpawned(d)

NextWM ==
    \/ WaveStartCall
    \/ WaveStopCall
    \/ OnWaveCompletedCall
    \/ OnEnemySpawnedCall
    \/ SpawnTimer
    \/ CompleteTimer
    \/ NextWaveTimer

InitEM ==
    /\ entities = [id \in Ids |-> None]
    /\ position = [o \in Objects |-> Origin]
    /\ spatialHash = <<>>
    /\ entityTypeCache = <<>>
    /\ updateQueue = <<>>
    /\ emPc = "idle"
    /\ iter = 0
    /\ cur = None
    /\ oldPosition = Origin
    /\ passOps = 0
    /\ startOrder = <<>>
    /\ removedInPass = {}
    /\ passLog = <<>>
    /\ lastCall = Call("new", None, FALSE, FALSE)
    /\ lastQuery = [op |-> "none", arg |-> None,
                    first |-> [threw |-> FALSE, result |-> {}],
                    again |-> [threw |-> FALSE, result |-> {}]]

AddEntityCall == \E o \in Objects, p \in Positions : AddEntity(o, p)
RemoveEntityCall == \E id \in Ids : RemoveEntity(id)
CbMoveStep == \E p \in Positions : CbMove(p)
CbAddCall == \E o \in Objects, p \in Positions : CbAdd(o, p)
CbRemoveCall == \E id \in Ids : CbRemove(id)

\* calls between passes; inside their update, entities move and call
\* addEntity and removeEntity
NextEM ==
    \/ AddEntityCall
    \/ RemoveEntityCall
    \/ UpdateStart
    \/ CbMoveStep
    \/ CbAddCall
    \/ CbRemoveCall
    \/ CbReturn

\* the manager's specification: the loop stays as constructed with no options
\* no query has been issued yet: a query changes nothing, so one query at any
\* point of a behaviour stands for all
NoQueryYet == lastQuery.op = "none"

QueryRadiusCall ==
    /\ NoQueryYet
    /\ \E p \in QueryPoints, radius \in Radii : QueryRadius(p, radius)
GetEntitiesByTypeCall ==
    /\ NoQueryYet
    /\ \E t \in Types : GetEntitiesByType(t)

\* the manager with queries issued between calls and from inside updates;
\* inside their update, entities move and call removeEntity
NextEMQuery ==
    \/ AddEntityCall
    \/ RemoveEntityCall
    \/ UpdateStart
    \/ CbMoveStep
    \/ CbRemoveCall
    \/ CbReturn
    \/ QueryRadiusCall
    \/ GetEntitiesByTypeCall

\* calls between passes; inside their update, entities move, and return or
\* throw
NextEMThrow ==
    \/ AddEntityCall
    \/ RemoveEntityCall
    \/ UpdateStart
    \/ CbMoveStep
    \/ CbReturn
    \/ CbThrow

InitManager == InitEM /\ InitGL(0, 0) /\ InitTime(0) /\ InitCol /\ InitQT(Box(0, 0, 32, 32)) /\ InitKB /\ InitGSM /\ InitWM
SpecEM == InitManager /\ [][NextEM]_vars
SpecEMThrow == InitManager /\ [][NextEMThrow]_vars
SpecEMQuery == InitManager /\ [][NextEMQuery]_vars

\* the loop's specification: the manager stays empty
InitLoop ==
    /\ InitEM /\ InitTime(0) /\ InitCol /\ InitQT(Box(0, 0, 32, 32)) /\ InitKB /\ InitGSM /\ InitWM
    /\ \E f \in FpsOptions, m \in MaxUpdatesOptions : InitGL(f, m)
SpecLoop == InitLoop /\ [][NextLoop]_vars
SpecLoopFull == InitLoop /\ [][NextLoopFull]_vars

\* the specification of Time: the drain loop of the caller keeps calling
\* shouldFixedUpdate() until it returns false
InitTimeSpec ==
    /\ InitEM /\ InitGL(0, 0) /\ InitCol /\ InitQT(Box(0, 0, 32, 32)) /\ InitKB /\ InitGSM /\ InitWM
    /\ \E opt \in FixedTimestepOptions : InitTime(opt)
SpecTime == InitTimeSpec /\ [][NextTime]_vars /\ WF_vars(ShouldFixedUpdate)

\* the specification of QuadTree: inserts and clears on trees of every size
InitQuadTree ==
    /\ InitEM /\ InitGL(0, 0) /\ InitTime(0) /\ InitCol /\ InitKB /\ InitGSM /\ InitWM
    /\ \E bounds \in RootBounds : InitQT(bounds)
SpecQT == InitQuadTree /\ [][NextQT]_vars

\* the specification of KeyboardController: calls and key events in any order
InitKeyboard ==
    InitEM /\ InitGL(0, 0) /\ InitTime(0) /\ InitCol /\ InitQT(Box(0, 0, 32, 32)) /\ InitKB /\ InitGSM /\ InitWM
SpecKB == InitKeyboard /\ [][NextKB]_vars

\* GameStateManager
InitStateManager ==
    InitEM /\ InitGL(0, 0) /\ InitTime(0) /\ InitCol /\ InitQT(Box(0, 0, 32, 32)) /\ InitKB /\ InitGSM /\ InitWM
SpecGSM == InitStateManager /\ [][NextGSM]_vars

\* WaveManager
InitWaveManager ==
    InitEM /\ InitGL(0, 0) /\ InitTime(0) /\ InitCol /\ InitQT(Box(0, 0, 32, 32)) /\ InitKB /\ InitGSM /\ InitWM
SpecWM == InitWaveManager /\ [][NextWM]_vars

\* the specification of CollisionSystem: calls with arguments of every kind
InitCollision == InitEM /\ InitGL(0, 0) /\ InitTime(0) /\ InitCol /\ InitQT(Box(0, 0, 32, 32)) /\ InitKB /\ InitGSM /\ InitWM
SpecCol == InitCollision /\ [][NextCol]_vars

(***************************************************************************)
(* EntityManager: properties                                               *)
(***************************************************************************)
BucketsOf(id) == {k \in DOMAIN spatialHash : id \in spatialHash[k]}

\* the entities within the radius of p, by distance alone
InRadius(p, radius) ==
    {entities[id] : id \in {i \in Registered :
        (position[entities[i]][1] - p[1]) * (position[entities[i]][1] - p[1])
        + (position[entities[i]][2] - p[2]) * (position[entities[i]][2] - p[2])
        <= radius * radius}}

\* C1: between calls (no update pass is running), for every registered
\* entity the bucket of the cell of its current position contains its id and
\* no other bucket does.
C1_GridInvariant ==
    emPc = "idle" =>
        \A id \in Registered :
            BucketsOf(id) = {getCellKey(position[entities[id]])}

\* C2: an id that is not registered (it was removed and not added again) is in
\* no bucket of the spatial hash and is returned by no query.
C2_RemovedIsGone ==
    \A id \in Ids \ Registered :
        /\ BucketsOf(id) = {}
        /\ \A p \in QueryPoints, r \in Radii :
              \A o \in queryRadius(p, r).result : idOf(o) # id
        /\ \A t \in Types : \A o \in getEntitiesByType(t).result : idOf(o) # id

\* C3: between calls, queryRadius(p, r) returns exactly the registered
\* entities within distance r of p; so with A(0,0) and B(250,10), radius 50 at
\* (0,0) gives A alone and radius 300 gives both.
C3_QueryRadiusExact ==
    emPc = "idle" =>
        \A p \in QueryPoints, r \in Radii :
            queryRadius(p, r).result = InRadius(p, r)

\* C4: addEntity with an id that is already registered throws and leaves the
\* registry, the spatial hash, the type index and the update set as they were.
C4_DuplicateAddFails ==
    [][(lastCall'.op = "addEntity" /\ entities[lastCall'.id] # None)
        => (lastCall'.threw /\ UNCHANGED mgrState)]_vars

\* C4 witness: addEntity was called with a registered id.
C4_Witness ==
    /\ lastCall.op = "addEntity"
    /\ lastCall.found
    /\ entities[lastCall.id] # None

\* C5: the ids of the primary map, the ids marked for update and the union of
\* the type sets are equal; a registered id is in the set of its entity's type
\* and in no other; after a successful addEntity the id is in all of them and
\* in the bucket of its cell.
C5_IndexConsistency ==
    /\ Registered = Range(updateQueue) \ {EMPTY}
    /\ Registered = UNION {entityTypeCache[t] : t \in DOMAIN entityTypeCache}
    /\ \A id \in Registered :
          {t \in DOMAIN entityTypeCache : id \in entityTypeCache[t]}
              = {typeOf(entities[id])}
    /\ (lastCall.op = "addEntity" /\ ~lastCall.threw) =>
          /\ lastCall.id \in Registered
          /\ lastCall.id \in Range(updateQueue)
          /\ lastCall.id \in entityTypeCache[typeOf(entities[lastCall.id])]
          /\ getCellKey(position[entities[lastCall.id]]) \in BucketsOf(lastCall.id)

\* C5 witness: both ids registered, with different types, the id "a" carried
\* by its second object after a removal.
C5_Witness ==
    /\ entities["a"] = "a2"
    /\ entities["b"] = "b1"
    /\ "player" \in DOMAIN entityTypeCache
    /\ lastCall.op = "addEntity" /\ ~lastCall.threw

\* C6: removeEntity of an id that is not registered throws nothing and leaves
\* the four indices unchanged; after any removeEntity(id) the id is not
\* registered, so a second removeEntity(id) changes nothing.
C6_RemoveAbsentNoOp ==
    [][lastCall'.op = "removeEntity" =>
         /\ ~lastCall'.threw
         /\ entities'[lastCall'.id] = None
         /\ entities[lastCall'.id] = None => UNCHANGED mgrState]_vars

\* C6 witness: removeEntity was called with an id that was not registered,
\* while the entity of the other id is registered.
C6_Witness ==
    /\ lastCall.op = "removeEntity"
    /\ ~lastCall.found
    /\ Registered # {}

\* C7: a pass invokes update once on every entity registered at its start and
\* not removed during it, in registration order; and when a later entity's
\* update is entered, or the pass is over, every registered entity is in
\* exactly one bucket, that of its current cell.
C7_PassOrderAndMigration ==
    /\ (emPc = "idle" /\ lastCall.op = "update") =>
          LET S == Range(startOrder) \ removedInPass
          IN SelectSeq(passLog, LAMBDA x : x \in S)
               = SelectSeq(startOrder, LAMBDA x : x \in S)
    /\ (lastCall.op = "update" /\ (emPc = "idle" \/ Len(passLog) >= 2)) =>
          \A id \in Registered :
              BucketsOf(id) = {getCellKey(position[entities[id]])}

\* C8: getEntitiesByType(t) returns exactly the registered entities of type t
\* (none for a type never seen); no query throws, and no query returns an
\* object for an id that the primary map does not hold.
C8_QueriesFilterStale ==
    /\ \A t \in Types :
          /\ ~getEntitiesByType(t).threw
          /\ getEntitiesByType(t).result
               = {entities[id] : id \in {i \in Registered : typeOf(entities[i]) = t}}
    /\ \A p \in QueryPoints, r \in Radii :
          /\ ~queryRadius(p, r).threw
          /\ queryRadius(p, r).result \subseteq {entities[id] : id \in Registered}

\* C8 witness: a bucket that a query scans holds an id that the primary map
\* does not hold, and a type has never been seen.
C8_Witness ==
    /\ \E id \in Ids \ Registered :
          BucketsOf(id) \cap getCellsInRadius(<<0, 0>>, 300) # {}
    /\ Registered # {}
    /\ "projectile" \notin DOMAIN entityTypeCache

(***************************************************************************)
(* GameLoop: properties                                                    *)
(***************************************************************************)
\* C9: the update callbacks invoked in one frame callback with a delta of at
\* most 1000 ms number min(floor((acc + d) / frameTime), maxUpdatesPerFrame),
\* each is invoked with frameTime, and at 60 Hz (with a ceiling of at least
\* 3) the deltas 16.67, 16.67, 50, 16.67 ms give 1, 1, 3, 1 updates.
C9_DrainCount ==
    /\ glPc = "update" => updateArg = frameTime
    /\ (glPc = "render" /\ frameDelta <= Ms(MAX_DELTA_MS)) =>
          updates = MinOf((frameAcc + frameDelta) \div frameTime, maxUpdatesPerFrame)
    /\ (/\ fps = 60
        /\ maxUpdatesPerFrame >= 3
        /\ Len(frameLog) >= 4
        /\ [i \in 1..4 |-> frameLog[i].d] = <<5001, 5001, 15000, 5001>>)
          => [i \in 1..4 |-> frameLog[i].n] = <<1, 1, 3, 1>>

\* C9 witness: the four frame callbacks of the 60 Hz scenario have run.
C9_Witness ==
    /\ fps = 60
    /\ Len(frameLog) = 4
    /\ [i \in 1..4 |-> frameLog[i].d] = <<5001, 5001, 15000, 5001>>
    /\ [i \in 1..4 |-> frameLog[i].n] = <<1, 1, 3, 1>>

\* C10: when the render callback is invoked, 0 <= accumulated < frameTime, and
\* the interpolation it is given (renderArg / frameTime) is in [0, 1).
C10_InterpolationRange ==
    glPc = "render" =>
        /\ 0 <= accumulated /\ accumulated < frameTime
        /\ 0 <= renderArg /\ renderArg < frameTime

\* C10 witness: render is entered after a panic, in a frame callback that
\* follows one with a normal drain that left a remainder.
C10_Witness ==
    /\ glPc = "render"
    /\ panics = 1
    /\ Len(frameLog) >= 1
    /\ frameLog[1].n >= 1 /\ frameLog[1].n < maxUpdatesPerFrame
    /\ frameLog[1].d % frameTime # 0

\* fixed updates the accumulated time of the current frame callback calls for
UpdatesDue == (frameAcc + deltaTime) \div frameTime

\* C11: no frame callback invokes more than maxUpdatesPerFrame updates or more
\* than one panic callback; a frame callback whose accumulated time calls for
\* more than maxUpdatesPerFrame updates runs exactly maxUpdatesPerFrame of
\* them, invokes the panic callback once, leaves the accumulator at 0 (also
\* once it is over) and gives render the interpolation 0.
C11_Panic ==
    /\ updates <= maxUpdatesPerFrame
    /\ panics <= 1
    /\ (glPc \in {"render", "idle"} /\ UpdatesDue > maxUpdatesPerFrame) =>
          /\ updates = maxUpdatesPerFrame
          /\ panics = 1
          /\ accumulated = 0
          /\ renderArg = 0

\* C11 witness: with the default ceiling of 10, a frame callback that had 12
\* updates due is over.
C11_Witness ==
    /\ glPc = "idle"
    /\ maxUpdatesPerFrame = MAX_UPDATES_PER_FRAME
    /\ UpdatesDue > maxUpdatesPerFrame
    /\ panics = 1
    /\ Len(frameLog) >= 1

\* C12: when the update or the render callback throws e, the loop is stopped,
\* the frame callback ends there (no further update or render of that frame),
\* it requests no frame and the request it held is not pending, and e is the
\* exception that leaves the frame callback.
C12_CallbackThrows ==
    [][\A e \in Errors : (UpdateThrow(e) \/ RenderThrow(e)) =>
          /\ ~running'
          /\ glPc' = "idle"
          /\ updates' = updates
          /\ rafPending' \subseteq rafPending
          /\ rafId' \notin rafPending'
          /\ escaped' = e]_vars

\* C12 witness: the update callback threw after one update of the same frame
\* callback had returned; the loop is stopped and no frame is pending.
C12_Witness ==
    /\ escaped \in Errors
    /\ glPc = "idle"
    /\ ~running
    /\ updates = 1
    /\ updateArg = frameTime
    /\ rafPending = {}

\* C13: the loop is stopped or running; start() of a stopped loop makes it
\* running, zeroes the accumulator and requests one frame, and changes
\* nothing when running; stop() of a running loop makes it stopped and
\* changes nothing when stopped; and while the loop is stopped and no frame
\* callback is executing, a frame callback that runs invokes no update,
\* render or panic callback.
C13_Lifecycle ==
    /\ [](running \in BOOLEAN)
    /\ [][(Start \/ CbStart) =>
             IF running THEN UNCHANGED glVars
             ELSE /\ running'
                  /\ accumulated' = 0
                  /\ rafPending \subseteq rafPending'
                  /\ Cardinality(rafPending' \ rafPending) = 1]_vars
    /\ [][(Stop \/ CbStop) =>
             IF running THEN ~running' ELSE UNCHANGED glVars]_vars
    /\ [][(~running /\ glPc = "idle") =>
             /\ glPc' = "idle"
             /\ updates' = updates
             /\ panics' = panics]_vars

\* C13 witness: stop() was called from a callback, the frame callback went on
\* to its end, and the frame callback it requested has run on the stopped loop.
C13_Witness ==
    /\ ~running
    /\ glPc = "idle"
    /\ escaped = None
    /\ Len(frameLog) >= 1
    /\ clock > lastTime

\* C14 as stated: a delta above 1000 ms is taken as one frameTime, a delta of
\* at most 1000 ms as it is; a frame callback with a delta above 1000 ms
\* performs exactly one update and never panics.
C14_DeltaClampNeverPanics ==
    /\ deltaTime = (IF frameDelta > Ms(MAX_DELTA_MS) THEN frameTime ELSE frameDelta)
    /\ (glPc = "render" /\ frameDelta > Ms(MAX_DELTA_MS)) =>
          /\ updates = 1
          /\ panics = 0

\* C14 amended: as above, but the frame callback with a delta above 1000 ms
\* panics exactly when maxUpdatesPerFrame is 1 (its one update reaches the
\* ceiling).
C14_DeltaClamp ==
    /\ deltaTime = (IF frameDelta > Ms(MAX_DELTA_MS) THEN frameTime ELSE frameDelta)
    /\ (glPc = "render" /\ frameDelta > Ms(MAX_DELTA_MS)) =>
          /\ updates = 1
          /\ panics = (IF maxUpdatesPerFrame = 1 THEN 1 ELSE 0)

\* C14 witness: render is entered in a frame callback with a delta of 1001 ms
\* that began with a remainder in the accumulator.
C14_Witness ==
    /\ glPc = "render"
    /\ frameDelta > Ms(MAX_DELTA_MS)
    /\ frameAcc > 0
    /\ maxUpdatesPerFrame > 1


(***************************************************************************)
(* Time: properties                                                        *)
(***************************************************************************)
CeilDiv(a, b) == (a + b - 1) \div b

\* C15: after update(), the calls of shouldFixedUpdate() come to a false
\* return; a true return subtracts exactly one fixedTimestep from the
\* accumulator and a false return leaves it; the true returns after one
\* update() number at most ceil(0.25 s / fixedTimestep); and once it has
\* returned false, 0 <= accumulator < fixedTimestep (the interpolation alpha
\* is in [0, 1)).
C15_TimeAccumulator ==
    /\ [](timeSteps <= CeilDiv(Ms(MAX_DELTA_TIME_MS), fixedTimestep))
    /\ [](timeReturn = "false" =>
             /\ 0 <= getInterpolationAlpha[1]
             /\ getInterpolationAlpha[1] < getInterpolationAlpha[2])
    /\ [][ShouldFixedUpdate =>
             IF timeAccumulator >= fixedTimestep
             THEN timeReturn' = "true" /\ timeAccumulator' = timeAccumulator - fixedTimestep
             ELSE timeReturn' = "false" /\ timeAccumulator' = timeAccumulator]_vars
    /\ (timePc = "draining" ~> timePc = "drained")

\* C15 witness: a second update(), with a delta of 250 ms on top of a
\* remainder, was drained in ceil(0.25 s / fixedTimestep) steps and left a
\* remainder.
C15_Witness ==
    /\ timePc = "drained"
    /\ timeReturn = "false"
    /\ timeCalls >= 2
    /\ timeSteps = CeilDiv(Ms(MAX_DELTA_TIME_MS), fixedTimestep)
    /\ timeAccumulator > 0

(***************************************************************************)
(* CollisionSystem: properties                                             *)
(***************************************************************************)
\* a checkCollision call that returned
Checked == colCall.op = "checkCollision" /\ ~colCall.out.threw

\* the closed intervals [lo1, lo1 + len1] and [lo2, lo2 + len2] share a point
Intersect(lo1, len1, lo2, len2) == (lo1..(lo1 + len1)) \cap (lo2..(lo2 + len2)) # {}

\* C16: checkCollision(A, B) and checkCollision(B, A) agree on colliding and,
\* when colliding, on the overlap extents.
C16_Symmetric ==
    Checked =>
        /\ checkCollision(colCall.b, colCall.a).colliding = colCall.out.colliding
        /\ checkCollision(colCall.b, colCall.a).overlap = colCall.out.overlap

\* C16 witness: two different boxes that touch on an edge were checked.
C16_Witness ==
    /\ Checked
    /\ colCall.a # colCall.b
    /\ colCall.out.colliding = Some(TRUE)
    /\ \E o \in colCall.out.overlap : o.x = 0 /\ o.y > 0

\* C17: a valid box, also of zero width or zero height, collides with itself.
C17_SelfCollision ==
    (Checked /\ colCall.a = colCall.b) => colCall.out.colliding = Some(TRUE)

\* C17 witness: a box of zero width and zero height was checked against itself.
C17_Witness ==
    /\ Checked
    /\ colCall.a = colCall.b
    /\ colCall.a.width.v = 0
    /\ colCall.a.height.v = 0

\* C18: colliding is true exactly when the closed intervals of the boxes
\* intersect on both axes; then overlap.x and overlap.y are min(far edges) -
\* max(near edges) and are >= 0; when not colliding there is no overlap and
\* no direction.
C18_ClosedIntervals ==
    Checked =>
        LET a == colCall.a
            b == colCall.b
            hit == /\ Intersect(a.x.v, a.width.v, b.x.v, b.width.v)
                   /\ Intersect(a.y.v, a.height.v, b.y.v, b.height.v)
        IN /\ colCall.out.colliding = Some(hit)
           /\ hit =>
                 /\ colCall.out.overlap =
                       Some([x |-> MinOf(a.x.v + a.width.v, b.x.v + b.width.v)
                                     - MaxOf(a.x.v, b.x.v),
                             y |-> MinOf(a.y.v + a.height.v, b.y.v + b.height.v)
                                     - MaxOf(a.y.v, b.y.v)])
                 /\ \A o \in colCall.out.overlap : o.x >= 0 /\ o.y >= 0
           /\ ~hit => colCall.out.overlap = Absent /\ colCall.out.direction = Absent

\* C18 witness: two boxes that touch at a corner only were checked.
C18_Witness ==
    /\ Checked
    /\ colCall.a.x.v + colCall.a.width.v = colCall.b.x.v
    /\ colCall.a.y.v + colCall.a.height.v = colCall.b.y.v
    /\ colCall.a.width.v > 0 /\ colCall.b.height.v > 0
    /\ colCall.out.overlap = Some([x |-> 0, y |-> 0])

\* the side the claim names on one axis: "none" when the centers are less than
\* 0.1 apart, else `before` when the center of A is the smaller one, else `after`
SideOf(lo1, len1, lo2, len2, before, after) ==
    IF Abs((2 * lo1 + len1) - (2 * lo2 + len2)) < 2 * DirectionEpsilon THEN "none"
    ELSE IF 2 * lo1 + len1 < 2 * lo2 + len2 THEN before ELSE after

\* C19: when colliding, direction.horizontal is 'none' when the centers are
\* less than 0.1 apart in x, else 'left' when the center of A is left of that
\* of B and 'right' when it is right of it; direction.vertical is 'none' when
\* they are less than 0.1 apart in y, else 'top' when the center of A is above
\* (smaller y) and 'bottom' when it is below.
C19_Direction ==
    (Checked /\ colCall.out.colliding = Some(TRUE)) =>
        LET a == colCall.a
            b == colCall.b
        IN colCall.out.direction =
             Some([horizontal |-> SideOf(a.x.v, a.width.v, b.x.v, b.width.v,
                                         "left", "right"),
                   vertical |-> SideOf(a.y.v, a.height.v, b.y.v, b.height.v,
                                       "top", "bottom")])

\* the arguments are all finite numbers and the sizes are not negative
FiniteBox(x, y, w, h) ==
    /\ x.k = "num" /\ y.k = "num" /\ w.k = "num" /\ h.k = "num"
    /\ w.v >= 0 /\ h.v >= 0

\* C20: createBoundingBox throws when an argument is not finite or a size is
\* negative and otherwise returns the box of its arguments (zero sizes
\* included); checkCollision and isPointInBox throw, and give no result,
\* when a box has a non-finite field or a negative size or the point a
\* non-finite coordinate.
C20_FailFast ==
    LET a == colCall.a
        b == colCall.b
        out == colCall.out
    IN /\ colCall.op = "createBoundingBox" =>
             IF FiniteBox(a[1], a[2], a[3], a[4])
             THEN ~out.threw /\ out.box = Some(Box(a[1], a[2], a[3], a[4]))
             ELSE out.threw /\ out.box = Absent
       /\ colCall.op = "checkCollision" =>
             (out.threw <=> ~(/\ FiniteBox(a.x, a.y, a.width, a.height)
                              /\ FiniteBox(b.x, b.y, b.width, b.height)))
       /\ colCall.op = "isPointInBox" =>
             (out.threw <=> ~(/\ a.x.k = "num" /\ a.y.k = "num"
                              /\ FiniteBox(b.x, b.y, b.width, b.height)))
       /\ out.threw => out = Thrown

\* C20 witness: checkCollision threw on a valid first box and a second box
\* whose only fault is a negative height.
C20_Witness ==
    /\ colCall.op = "checkCollision"
    /\ colCall.out.threw
    /\ FiniteBox(colCall.a.x, colCall.a.y, colCall.a.width, colCall.a.height)
    /\ colCall.b.x.k = "num" /\ colCall.b.y.k = "num"
    /\ colCall.b.width.k = "num" /\ colCall.b.height.k = "num"
    /\ colCall.b.width.v >= 0
    /\ colCall.b.height.v < 0

\* an isPointInBox call that returned
PointChecked == colCall.op = "isPointInBox" /\ ~colCall.out.threw

\* C21: isPointInBox(p, box) is true exactly when p.x lies in
\* [box.x, box.x + box.width] and p.y in [box.y, box.y + box.height], the
\* boundary included, and it agrees with checkCollision of the zero-size box
\* at p against box.
C21_PointInBox ==
    PointChecked =>
        LET p == colCall.a
            box == colCall.b
        IN /\ colCall.out.inside =
                Some(/\ p.x.v \in box.x.v..(box.x.v + box.width.v)
                     /\ p.y.v \in box.y.v..(box.y.v + box.height.v))
           /\ checkCollision(Box(p.x, p.y, Num(0), Num(0)), box).colliding =
                colCall.out.inside

\* C21 witness: a point on the right edge of a box of positive size was
\* found inside.
C21_Witness ==
    /\ PointChecked
    /\ colCall.b.width.v > 0
    /\ colCall.b.height.v > 0
    /\ colCall.a.x.v = colCall.b.x.v + colCall.b.width.v
    /\ colCall.out.inside = Some(TRUE)

(***************************************************************************)
(* QuadTree: properties                                                    *)
(***************************************************************************)
RECURSIVE NodesOf(_)
\* the nodes of a tree, the root among them
NodesOf(t) == {t} \cup UNION {NodesOf(t.nodes[i]) : i \in 1..Len(t.nodes)}

RECURSIVE HeldIn(_)
\* the objects held by the nodes of a tree
HeldIn(t) == Range(t.objects) \cup UNION {HeldIn(t.nodes[i]) : i \in 1..Len(t.nodes)}

\* the closed rectangles a and b share a point
Touching(a, b) ==
    /\ MaxOf(a.x, b.x) <= MinOf(a.x + a.width, b.x + b.width)
    /\ MaxOf(a.y, b.y) <= MinOf(a.y + a.height, b.y + b.height)

\* the closed rectangle outer contains the rectangle inner
Contains(outer, inner) ==
    /\ outer.x <= inner.x /\ inner.x + inner.width <= outer.x + outer.width
    /\ outer.y <= inner.y /\ inner.y + inner.height <= outer.y + outer.height

\* the quadrants of a node would be narrower or shorter than MIN_SIZE
QuadrantsTooSmall(n) == 2 * MIN_SIZE > n.bounds.width \/ 2 * MIN_SIZE > n.bounds.height

\* C22: after any sequence of inserts since the last clear, retrieve(q)
\* contains every inserted object whose bounds intersect q, for every query
\* box q and for q the bounds of the root.
C22_RetrieveNoOmissions ==
    \A q \in Queries \cup {qtTree.bounds} :
        \A o \in Range(qtInserted) :
            Touching(o.bounds, q) => o \in Range(retrieve(qtTree, q))

\* C27: an insert never throws; a node below MAX_LEVELS that holds more than
\* MAX_OBJECTS objects and whose quadrants would be smaller than MIN_SIZE has
\* no children and every inserted object is still held by the tree.
C27_SkippedSubdivision ==
    /\ ~qtCall.threw
    /\ HeldIn(qtTree) = Range(qtInserted)
    /\ \A n \in NodesOf(qtTree) :
        (n.level < MAX_LEVELS /\ QuadrantsTooSmall(n)) => Len(n.nodes) = 0

\* quadrant k (0 = top-left, 1 = top-right, 2 = bottom-left, 3 = bottom-right)
\* of the rectangle nb
Quadrant(nb, k) ==
    Box(nb.x + (k % 2) * (nb.width \div 2), nb.y + (k \div 2) * (nb.height \div 2),
        nb.width \div 2, nb.height \div 2)

\* the rectangle b fits in quadrant k of nb: it lies inside it and touches no
\* other quadrant
FitsQuadrant(nb, k, b) ==
    /\ Contains(Quadrant(nb, k), b)
    /\ \A j \in 0..3 \ {k} : ~Touching(Quadrant(nb, j), b)

\* a node that subdivides when it exceeds MAX_OBJECTS
Subdivides(n) == n.level < MAX_LEVELS /\ ~QuadrantsTooSmall(n)

\* how many times split() gave the node with these bounds its children
SplitCount(bounds) == Cardinality({i \in 1..Len(qtSplits) : qtSplits[i] = bounds})

\* C23 (states): a node that subdivides has no children only while it holds
\* at most MAX_OBJECTS objects, and got its children exactly once; when more
\* than MAX_OBJECTS objects were inserted and all fit in one quadrant of the
\* root, they are all held in that quadrant's subtree.
C23_SubdividedOnce ==
    /\ \A n \in NodesOf(qtTree) :
        Subdivides(n) =>
            /\ Len(n.nodes) = 0 => Len(n.objects) <= MAX_OBJECTS
            /\ Len(n.nodes) # 0 => SplitCount(n.bounds) = 1
    /\ \A k \in 0..3 :
        (/\ Subdivides(qtTree)
         /\ Len(qtInserted) > MAX_OBJECTS
         /\ \A o \in Range(qtInserted) : FitsQuadrant(qtTree.bounds, k, o.bounds))
        => /\ SplitCount(qtTree.bounds) = 1
           /\ Range(qtInserted) \subseteq HeldIn(qtTree.nodes[k + 1])

\* C23 (steps): a node gets its children in the insert that raises its
\* object count from MAX_OBJECTS, and keeps them until clear().
C23_SubdividesAtEleven ==
    (qtCall'.op = "insert") =>
        \A n \in NodesOf(qtTree) : \A m \in NodesOf(qtTree') :
            (m.bounds = n.bounds) =>
                /\ (Len(n.nodes) = 0 /\ Len(m.nodes) # 0) => Len(n.objects) = MAX_OBJECTS
                /\ Len(n.nodes) # 0 =>
                    [i \in 1..4 |-> m.nodes[i].bounds] = [i \in 1..4 |-> n.nodes[i].bounds]

\* C23: a node below MAX_LEVELS whose quadrants are at least MIN_SIZE wide and
\* high creates its four children exactly at the insert that first raises
\* its directly-held object count above MAX_OBJECTS and never again until
\* clear(); N > MAX_OBJECTS objects that all fit in one quadrant cause one
\* subdivision, after which all N are held in that quadrant's subtree.
C23_Subdivision == []C23_SubdividedOnce /\ [][C23_SubdividesAtEleven]_vars

C25_RoutingContainment ==
    /\ \A n \in NodesOf(qtTree) \ {qtTree} :
        \A o \in Range(n.objects) : Contains(n.bounds, o.bounds)
    /\ \A o \in HeldIn(qtTree) :
        ~Contains(qtTree.bounds, o.bounds) => o \in Range(qtTree.objects)

\* C26: no node is deeper than MAX_LEVELS; every child is at least MIN_SIZE
\* wide and high; the four children of a node are its four equal quadrants,
\* one level deeper, and tile it; a node without children that is below
\* MAX_LEVELS and whose quadrants would be at least MIN_SIZE holds at most
\* MAX_OBJECTS objects.
C26_StructuralBounds ==
    \A n \in NodesOf(qtTree) :
        /\ n.level \in 0..MAX_LEVELS
        /\ Len(n.nodes) \in {0, 4}
        /\ \A i \in 1..Len(n.nodes) :
            /\ n.nodes[i].bounds.width >= MIN_SIZE
            /\ n.nodes[i].bounds.height >= MIN_SIZE
            /\ n.nodes[i].bounds = Quadrant(n.bounds, i - 1)
            /\ n.nodes[i].level = n.level + 1
        /\ Len(n.nodes) # 0 =>
            /\ 2 * n.nodes[1].bounds.width = n.bounds.width
            /\ 2 * n.nodes[1].bounds.height = n.bounds.height
        /\ (Len(n.nodes) = 0 /\ Subdivides(n)) => Len(n.objects) <= MAX_OBJECTS

\* C26 witness: a node at MAX_LEVELS, MIN_SIZE wide, holds more than
\* MAX_OBJECTS objects and has no children.
C26_Witness ==
    \E n \in NodesOf(qtTree) :
        /\ n.level = MAX_LEVELS
        /\ n.bounds.width = MIN_SIZE
        /\ Len(n.objects) > MAX_OBJECTS
        /\ Len(n.nodes) = 0

\* C28: after clear() the root holds no objects and has no children, and
\* retrieve(q) is empty for every q; clear() on a cleared tree changes
\* nothing; the cleared tree is the tree the constructor builds for the same
\* bounds, so that the inserts that follow build the same tree from it as
\* from a freshly constructed one.
C28_Clear ==
    qtCall.op = "clear" =>
        /\ qtTree.objects = <<>>
        /\ qtTree.nodes = <<>>
        /\ \A q \in Queries \cup {qtTree.bounds} : retrieve(qtTree, q) = <<>>
        /\ clear(qtTree) = qtTree
        /\ qtTree = QuadTree(qtTree.bounds, 0)
        /\ qtInserted = <<>>

\* C28 witness: clear() has just discarded the children of a subdivided tree.
C28_Witness == qtCall.op = "clear" /\ qtDropped

(***************************************************************************)
(* KeyboardController: properties                                          *)
(***************************************************************************)
\* C29: in the notification of a key event a listener is invoked at most
\* once, however often it was registered; a listener whose last call was
\* removeMovementListener, or that was registered when dispose() was called,
\* is not invoked; and after dispose() the direction is 'none'.
C29_ListenerManagement ==
    /\ kbCall.op \in {"keydown", "keyup"} =>
        /\ \A i, j \in 1..Len(kbNotified) :
            kbNotified[i].listener = kbNotified[j].listener => i = j
        /\ \A i \in 1..Len(kbNotified) : kbStanding[kbNotified[i].listener] = "added"
    /\ kbCall.op = "dispose" => currentDirection = "none"

(***************************************************************************)
(* GameLoop: the chain of frame callbacks                                  *)
(***************************************************************************)
\* C30: whatever the interleaving of start(), stop() and frame callbacks,
\* start() and stop() called from inside the update or render callback
\* included, at most one frame callback of the loop is pending.
C30_SingleChain == Cardinality(rafPending) <= 1

\* C31 as stated: a frame callback whose accumulated time calls for at most
\* maxUpdatesPerFrame updates does not invoke the panic callback, and after
\* its drain the accumulator is (acc + delta) - updates * frameTime.
C31_PanicOnlyOnBacklog ==
    (glPc = "render" /\ UpdatesDue <= maxUpdatesPerFrame) =>
        /\ panics = 0
        /\ accumulated = (frameAcc + deltaTime) - updates * frameTime

\* C31, amended: a frame callback whose accumulated time calls for fewer than
\* maxUpdatesPerFrame updates runs them all, does not invoke the panic
\* callback and discards nothing; one that calls for exactly
\* maxUpdatesPerFrame updates runs them, reaches the ceiling and panics once,
\* which sets the accumulator to 0.
C31_PanicAtCeiling ==
    glPc = "render" =>
        /\ UpdatesDue < maxUpdatesPerFrame =>
              /\ updates = UpdatesDue
              /\ panics = 0
              /\ accumulated = (frameAcc + deltaTime) - updates * frameTime
        /\ UpdatesDue = maxUpdatesPerFrame =>
              /\ updates = maxUpdatesPerFrame
              /\ panics = 1
              /\ accumulated = 0

\* C31 witness: exactly maxUpdatesPerFrame (3) updates were due with a
\* remainder, they have run, and the panic discarded the remainder.
C31_Witness ==
    /\ glPc = "render"
    /\ maxUpdatesPerFrame = 3
    /\ UpdatesDue = maxUpdatesPerFrame
    /\ (frameAcc + deltaTime) % frameTime # 0
    /\ updates = 3
    /\ panics = 1
    /\ accumulated = 0

(***************************************************************************)
(* QuadTree: conservation                                                  *)
(***************************************************************************)
RECURSIVE Holdings(_)
\* the object arrays of the nodes of a tree, one after the other
Holdings(t) ==
    t.objects \o (IF Len(t.nodes) = 0 THEN <<>>
                  ELSE Holdings(t.nodes[1]) \o Holdings(t.nodes[2])
                       \o Holdings(t.nodes[3]) \o Holdings(t.nodes[4]))

\* the number of times o occurs in the sequence s
Occurrences(s, o) == Cardinality({i \in 1..Len(s) : s[i] = o})

\* no element occurs twice in the sequence s
NoDuplicates(s) == \A i, j \in 1..Len(s) : s[i] = s[j] => i = j

\* C32: after any sequence of inserts since the last clear every inserted
\* object is held by exactly one node, retrieve(q) returns no object twice,
\* and retrieve(root bounds) returns exactly the inserted objects, each once.
C32_Conservation ==
    /\ \A o \in Range(qtInserted) : Occurrences(Holdings(qtTree), o) = 1
    /\ \A q \in Queries \cup {qtTree.bounds} : NoDuplicates(retrieve(qtTree, q))
    /\ \A o \in Range(qtInserted) : Occurrences(retrieve(qtTree, qtTree.bounds), o) = 1
    /\ Len(retrieve(qtTree, qtTree.bounds)) = Len(qtInserted)

(***************************************************************************)
(* The two overlap tests                                                   *)
(***************************************************************************)
\* the numbers of a box whose fields are all finite
Plain(box) == Box(box.x.v, box.y.v, box.width.v, box.height.v)

\* C33: for boxes A and B with finite fields and non-negative width and
\* height, QuadTree.checkCollision(A, B) is the `colliding` of
\* CollisionSystem.checkCollision(A, B).
C33_OverlapTestsAgree ==
    (/\ colCall.op = "checkCollision"
     /\ validateBoundingBox(colCall.a)
     /\ validateBoundingBox(colCall.b)) =>
        colCall.out.colliding = Some(boundsIntersect(Plain(colCall.a), Plain(colCall.b)))

\* C33 witness: box B begins on the right edge of box A, which has no width,
\* and both tests say the boxes overlap.
C33_Witness ==
    /\ colCall.op = "checkCollision"
    /\ validateBoundingBox(colCall.a)
    /\ validateBoundingBox(colCall.b)
    /\ colCall.a.width.v = 0
    /\ colCall.b.x.v = colCall.a.x.v + colCall.a.width.v
    /\ colCall.b.width.v > 0
    /\ colCall.out.colliding = Some(TRUE)
    /\ boundsIntersect(Plain(colCall.a), Plain(colCall.b))

(***************************************************************************)
(* EntityManager: an entity whose update throws                            *)
(***************************************************************************)
\* C34: when an entity's update throws during update(), the exception leaves
\* update() and, in the resulting state, the id of every registered entity
\* is in the bucket of its current cell and in no other bucket.
C34_GridSurvivesThrow ==
    (lastCall.op = "update" /\ lastCall.threw) =>
        /\ emPc = "idle"
        /\ \A id \in Registered :
              BucketsOf(id) = {getCellKey(position[entities[id]])}

TransitionTable ==
    {<<"LOADING", "MENU">>,
     <<"MENU", "PLAYING">>, <<"MENU", "LOADING">>,
     <<"PLAYING", "PAUSED">>, <<"PLAYING", "GAME_OVER">>,
     <<"PAUSED", "PLAYING">>, <<"PAUSED", "MENU">>,
     <<"GAME_OVER", "MENU">>, <<"GAME_OVER", "PLAYING">>}

C37_FailedTransitionAtomic ==
    [][(gsmCall' # gsmCall /\ gsmCall'.op = "transitionTo" /\ gsmCall'.threw) =>
          /\ UNCHANGED <<currentState, currentStateType>>
          /\ ~gsmCall'.exitCalled
          /\ currentState' \notin gsmExited']_vars

(***************************************************************************)
(* WaveManager: properties                                                 *)
(***************************************************************************)
\* no callback is invoked by a timer that was set before the last stop()
NoCallbackFromBeforeStop ==
    (wmEvent.op \in {"spawn", "complete"} /\ wmEvent.invoked) =>
        wmEvent.timer.stops = wmStops

\* currentWave grows by one, in start() or while the system is active through
\* a timer set since the last stop()
WaveStartsOnlyWhenActive ==
    currentWave' # currentWave =>
        /\ currentWave' = currentWave + 1
        /\ \/ wmEvent'.op = "start"
           \/ isWaveActive /\ wmEvent'.timer.stops = wmStops

\* start() while the system is active throws and leaves currentWave unchanged
StartWhileActiveThrows ==
    (wmCalls' # wmCalls /\ wmEvent'.op = "start" /\ isWaveActive) =>
        wmEvent'.threw /\ currentWave' = currentWave

\* C38: after stop() no onEnemySpawn and no onWaveComplete callback is
\* invoked for a spawn or wave scheduled before the stop, also not after a
\* later start(); no next wave starts until start() is called again; and
\* start() while the system is active throws and leaves currentWave unchanged.
C38_Stop ==
    /\ []NoCallbackFromBeforeStop
    /\ [][WaveStartsOnlyWhenActive /\ StartWhileActiveThrows]_vars

====
